---- MODULE Spec2Model ----
(***************************************************************************)
(* WorkerMutex: a re-entrant mutex for worker threads over three Int32     *)
(* cells (flag, owner, recursionCount) of a SharedArrayBuffer.  Every      *)
(* Atomics operation of lock(), lockAsync() and unlock() is one step, so   *)
(* the threads interleave between any two of them.                         *)
(***************************************************************************)
EXTENDS Integers, Sequences, FiniteSets, TLC

\* ---------------------------------------------------------------- constants
STRIDE == 3
LOCK_OFFSET == 0
OWNER_OFFSET == 1
COUNT_OFFSET == 2
MAX_RECURSION_COUNT == 2147483647
\* the cap of the back-off delay of lockAsync()
MAX_DELAY == 8

\* ------------------------------------------------------------------- bounds
\* thread ids are 0 (the main thread) .. MaxThreadId (worker threads)
MaxThreadId == 2
\* the threads 0 .. MaxCaller call the mutex freely in Spec
MaxCaller == 1
\* the counter workers of the test are the threads 1 .. MaxWorker
MaxWorker == 2
\* the acquisitions a thread starts where the calls of a thread are counted
MaxCalls == 2
\* a thread starts a new acquisition only below this depth
MaxDepth == 2
\* workerData.iterations of the counter workers
Iterations == 2
\* the slots of a block are 0 .. MaxIndex
MaxIndex == 1

Threads == 0..MaxThreadId
Callers == 0..MaxCaller
MAIN_THREAD_ID == 0
\* a thread started with new Worker(...) has a threadId of 1 or more
CounterWorkers == 1..MaxWorker

\* the identity a thread stores in the owner cell: worker_threads.threadId
selfId(t) == t

\* v + 1 and v - 1 as an Int32Array cell holds them: modulo 2^32, in
\* -2^31 .. 2^31 - 1
INT32_MAX == 2147483647
INT32_MIN == (-2147483647) - 1
\* an increment that is lost
int32Same(v) == v
int32Inc(v) == IF v = INT32_MAX THEN INT32_MIN ELSE v + 1
int32Dec(v) == IF v = INT32_MIN THEN INT32_MAX ELSE v - 1

VARIABLES
    i32,                     \* the Int32Array over the shared buffer
    hasWaitAsync,            \* typeof Atomics.waitAsync === 'function'
    mainThreadWarningShown,  \* the static latch of the main-thread warning
    warnings,                \* number of process.emitWarning calls made
    pc,                      \* per thread: the step its running call is at
    op,                      \* per thread: the call running, or the last one
    ret,                     \* per thread: how its last call ended
    lockv,                   \* per thread: the local `lock` of the call
    countv,                  \* per thread: the local `count` of the call
    task,                    \* per thread: its suspended lockAsync(), if any
    delay,                   \* per thread: the local `delay` of lockAsync()
    keepAlive,               \* per thread: a keep-alive timer is outstanding
    waiters,                 \* FIFO of the waiters on the flag cell
    held,                    \* per thread: acquisitions not yet released
    under,                   \* per thread: who held when its lockAsync() began
    useAsync,                \* workerData.useAsync of the counter workers
    counter,                 \* the counter workers' shared counter[0]
    wpc,                     \* per thread: where its worker program is at
    iter,                    \* per thread: increments its worker has written
    tmp,                     \* per thread: the counter[0] its worker read
    index,                   \* per thread: the slot index of its handle
    work,                    \* per thread: toggled by its other scheduled work
    block,                   \* the last createSharedBuffer(count) and its result
    made,                    \* the last new WorkerMutex(options) and its result
    winner                   \* per slot: the thread whose CAS set the flag

\* the state of the programs that call the mutex
client == <<useAsync, counter, wpc, iter, tmp, work, block, made>>

\* the state of the mutex and of the calls on it
mutex == <<i32, hasWaitAsync, mainThreadWarningShown, warnings, pc, op, ret,
           lockv, countv, task, delay, keepAlive, waiters, held, under,
           index, winner>>

vars == <<i32, hasWaitAsync, mainThreadWarningShown, warnings, pc, op, ret,
          lockv, countv, task, delay, keepAlive, waiters, held, under,
          useAsync, counter, wpc, iter, tmp, index, work, block, made,
          winner>>

\* new WorkerMutex({ handle, index }): this.base = index * STRIDE
base(t) == index[t] * STRIDE
\* a flag cell that is the one of slot 0 for every handle
lockIndexOfSlot0(t) == LOCK_OFFSET
lockIndex(t) == base(t) + LOCK_OFFSET
ownerIndex(t) == base(t) + OWNER_OFFSET
countIndex(t) == base(t) + COUNT_OFFSET

\* the three cells of slot 0
flag == i32[LOCK_OFFSET]
owner == i32[OWNER_OFFSET]
recursionCount == i32[COUNT_OFFSET]

\* a buffer of two cells for each slot, without the recursion count's
createSharedBufferOfPairs(count) == [i \in 0..(2 * count - 1) |-> 0]

\* WorkerMutex.createSharedBuffer(count), seen through an Int32Array: a
\* zero-filled buffer of STRIDE cells for each of the count slots
createSharedBuffer(count) == [i \in 0..(STRIDE * count - 1) |-> 0]

\* ---- JavaScript numbers up to 2^53, as two limbs ----

\* a number's magnitude is hi * LIMB + lo, plus a fraction if frac is set
LIMB == 2 ^ 27

\* the largest slot count the model allocates cell by cell
MaxCount == 3

Num(h, l) == [kind |-> "number", neg |-> FALSE, hi |-> h, lo |-> l,
              frac |-> FALSE]
\* a small integer as a JavaScript number
int(n) == [kind |-> "number", neg |-> n < 0, hi |-> 0,
           lo |-> IF n < 0 THEN 0 - n ELSE n, frac |-> FALSE]
\* a number with the integer part of v and a non-zero fraction
fraction(v) == [v EXCEPT !.frac = TRUE]
\* an argument that was not passed
undefined == [kind |-> "undefined", neg |-> FALSE, hi |-> 0, lo |-> 0,
              frac |-> FALSE]
NaN == [kind |-> "NaN", neg |-> FALSE, hi |-> 0, lo |-> 0, frac |-> FALSE]

\* Number.MAX_SAFE_INTEGER = 2^53 - 1
MAX_SAFE_INTEGER == Num(2 ^ 26 - 1, LIMB - 1)

\* |a| <= |b|
magLeq(a, b) ==
    \/ a.hi < b.hi
    \/ /\ a.hi = b.hi
       /\ \/ a.lo < b.lo
          \/ a.lo = b.lo /\ (~a.frac \/ b.frac)

isZero(v) == v.hi = 0 /\ v.lo = 0 /\ ~v.frac
\* v < 0
negative(v) == v.kind = "number" /\ v.neg /\ ~isZero(v)
\* v <= 0
notPositive(v) == v.kind = "number" /\ (v.neg \/ isZero(v))
\* a > b, for a and b not negative
greater(a, b) == a.kind = "number" /\ ~magLeq(a, b)

\* Number.isSafeInteger(v)
isSafeInteger(v) == v.kind = "number" /\ ~v.frac /\ magLeq(v, MAX_SAFE_INTEGER)

\* Math.floor(a / d) for a safe integer a >= 0 and a small d > 0
floorDiv(a, d) == Num(a.hi \div d, ((a.hi % d) * LIMB + a.lo) \div d)
\* a * k for an integer a >= 0 and a small k >= 0
times(a, k) == Num(a.hi * k + (a.lo * k) \div LIMB, (a.lo * k) % LIMB)
\* a + n for an integer a >= 0 and a small n >= 0
plus(a, n) == Num(a.hi + (a.lo + n) \div LIMB, (a.lo + n) % LIMB)
\* a >= n for an integer a >= 0 and a small n >= 0
atLeast(a, n) == a.hi > 0 \/ a.lo >= n

BYTES_PER_ELEMENT == 4
BYTES_PER_MUTEX == BYTES_PER_ELEMENT * STRIDE
MAX_MUTEX_COUNT == floorDiv(MAX_SAFE_INTEGER, BYTES_PER_MUTEX)

\* ---- createSharedBuffer(count) with its validation ----

\* a count limit that is never exceeded
exceedsNothing(count) == FALSE
\* count > MAX_MUTEX_COUNT
exceedsMax(count) == greater(count, MAX_MUTEX_COUNT)

\* !Number.isSafeInteger(count) || count <= 0
notPositiveSafeInteger(count) == ~isSafeInteger(count) \/ notPositive(count)

\* the call createSharedBuffer(arg) and what it yields: an error code, or
\* "ok" with the byte length asked of new SharedArrayBuffer and, for a
\* count within MaxCount, the buffer's Int32 cells
createBlock(arg) ==
    LET count == IF arg.kind = "undefined" THEN int(1) ELSE arg
        failed(c) == [arg |-> arg, code |-> c, byteLength |-> int(0),
                      listed |-> FALSE, cells |-> createSharedBuffer(0)]
    IN  IF notPositiveSafeInteger(count)
          THEN failed("COUNT_MUST_BE_A_POSITIVE_SAFE_INTEGER")
        ELSE IF exceedsMax(count)
          THEN failed("COUNT_EXCEEDS_MAX_SUPPORTED_VALUE")
        ELSE LET small == count.hi = 0 /\ count.lo <= MaxCount
             IN  [arg |-> arg, code |-> "ok",
                  byteLength |-> times(count, BYTES_PER_MUTEX),
                  listed |-> small,
                  cells |-> IF small THEN createSharedBuffer(count.lo)
                                     ELSE createSharedBuffer(0)]

NoBlock == [arg |-> undefined, code |-> "none", byteLength |-> int(0),
            listed |-> FALSE, cells |-> createSharedBuffer(0)]

\* ---- new WorkerMutex({ handle, index }) ----

\* utils.assertUnsignedInteger(value) throws
notUnsignedInteger(value) == ~isSafeInteger(value) \/ negative(value)

\* an alignment test that accepts every byte length
alignedAlways(byteLength) == TRUE
\* handle.byteLength % Int32Array.BYTES_PER_ELEMENT === 0
aligned(byteLength) == byteLength % BYTES_PER_ELEMENT = 0

\* a range test that only rejects a slot starting past the buffer's end
outOfRangePastEnd(idx, length) ==
    negative(idx) \/ atLeast(times(idx, STRIDE), length + 1)
\* index < 0 || base + (STRIDE - 1) >= view.length
outOfRange(idx, length) ==
    negative(idx) \/ atLeast(plus(times(idx, STRIDE), STRIDE - 1), length)

\* a handle argument: whether it is a SharedArrayBuffer, its byte length
\* and, seen through an Int32Array, its cells
Handle(shared, byteLength) ==
    [shared |-> shared, byteLength |-> byteLength,
     cells |-> [i \in 0..(byteLength \div BYTES_PER_ELEMENT - 1) |-> 0]]

\* the call new WorkerMutex({ handle, index: arg }) and what it yields: an
\* error code, or "ok" with this.base and the cells of this.i32
constructor(handle, arg) ==
    LET idx == IF arg.kind = "undefined" THEN int(0) ELSE arg
        failed(c) == [handle |-> handle, arg |-> arg, code |-> c,
                      base |-> 0, i32 |-> createSharedBuffer(0)]
    IN  IF notUnsignedInteger(idx)
          THEN failed("VALUE_MUST_BE_AN_UNSIGNED_INTEGER")
        ELSE IF ~handle.shared
          THEN failed("HANDLE_MUST_BE_A_SHARED_ARRAY_BUFFER")
        ELSE IF ~aligned(handle.byteLength)
          THEN failed("HANDLE_BYTE_LENGTH_IS_NOT_INT32_ALIGNED")
        ELSE IF outOfRange(idx, handle.byteLength \div BYTES_PER_ELEMENT)
          THEN failed("MUTEX_INDEX_OUT_OF_RANGE")
        ELSE [handle |-> handle, arg |-> arg, code |-> "ok",
              base |-> times(idx, STRIDE).lo, i32 |-> handle.cells]

NoHandle == [handle |-> Handle(FALSE, 0), arg |-> undefined, code |-> "none",
             base |-> 0, i32 |-> createSharedBuffer(0)]

TypeOK ==
    /\ \E count \in 1..(MaxIndex + 1) : i32 \in [0..(STRIDE * count - 1) -> Int]
    /\ hasWaitAsync \in BOOLEAN
    /\ mainThreadWarningShown \in BOOLEAN
    /\ warnings \in Nat
    /\ pc \in [Threads -> {"idle", "loadLock", "loadOwner", "incLoad", "incCas",
                           "casFlag", "storeOwner", "storeCount", "wait",
                           "waitAsync", "parked", "uLoadLock", "uLoadOwner",
                           "uLoadCount", "uCas", "uStoreCount", "uStoreOwner",
                           "uStoreFlag", "uNotify"}]
    /\ op \in [Threads -> {"none", "lock", "lockAsync", "unlock"}]
    /\ ret \in [Threads -> {"none", "ok", "MUTEX_IS_NOT_OWNED_BY_CURRENT_THREAD",
                            "MUTEX_RECURSION_COUNT_UNDERFLOW",
                            "MUTEX_RECURSION_COUNT_OVERFLOW"}]
    /\ lockv \in [Threads -> Int]
    /\ countv \in [Threads -> Int]
    /\ task \in [Threads -> {"none", "sleeping", "waiting", "notified"}]
    /\ delay \in [Threads -> 0..MAX_DELAY]
    /\ keepAlive \in [Threads -> BOOLEAN]
    /\ held \in [Threads -> Nat]
    /\ under \in [Threads -> SUBSET Threads]
    /\ useAsync \in BOOLEAN
    /\ counter \in Nat
    /\ wpc \in [Threads -> {"none", "new", "threw", "lock", "locking", "read",
                            "write", "hold", "await", "unlock", "unlocking",
                            "done", "failed", "error", "exiting",
                            "throwing", "exited", "exitedFailed",
                            "exitedError"}]
    /\ iter \in [Threads -> Nat]
    /\ tmp \in [Threads -> Nat]
    /\ index \in [Threads -> 0..MaxIndex]
    /\ winner \in [0..MaxIndex -> SUBSET Threads]
    /\ work \in [Threads -> BOOLEAN]
    /\ block.code \in {"none", "ok", "COUNT_MUST_BE_A_POSITIVE_SAFE_INTEGER",
                      "COUNT_EXCEEDS_MAX_SUPPORTED_VALUE", "RangeError"}
    /\ made.code \in {"none", "ok", "VALUE_MUST_BE_AN_UNSIGNED_INTEGER",
                     "HANDLE_MUST_BE_A_SHARED_ARRAY_BUFFER",
                     "HANDLE_BYTE_LENGTH_IS_NOT_INT32_ALIGNED",
                     "MUTEX_INDEX_OUT_OF_RANGE"}

\* no call has been made
InitCalls ==
    /\ hasWaitAsync \in BOOLEAN
    /\ mainThreadWarningShown = FALSE
    /\ warnings = 0
    /\ pc = [t \in Threads |-> "idle"]
    /\ op = [t \in Threads |-> "none"]
    /\ ret = [t \in Threads |-> "none"]
    /\ lockv = [t \in Threads |-> 0]
    /\ countv = [t \in Threads |-> 0]
    /\ task = [t \in Threads |-> "none"]
    /\ delay = [t \in Threads |-> 0]
    /\ keepAlive = [t \in Threads |-> FALSE]
    /\ waiters = <<>>
    /\ held = [t \in Threads |-> 0]
    /\ under = [t \in Threads |-> {}]
    /\ winner = [i \in 0..MaxIndex |-> {}]

\* the state after the buffer is created and every thread has its handle
\* on slot 0
InitMutex ==
    /\ i32 = createSharedBuffer(1)
    /\ index = [t \in Threads |-> 0]
    /\ InitCalls

\* no counter worker runs: the threads call the mutex as they like
Init ==
    /\ InitMutex
    /\ useAsync = FALSE
    /\ counter = 0
    /\ wpc = [t \in Threads |-> "none"]
    /\ iter = [t \in Threads |-> 0]
    /\ tmp = [t \in Threads |-> 0]
    /\ work = [t \in Threads |-> FALSE]
    /\ block = NoBlock
    /\ made = NoHandle

\* ------------------------------------------------------------ the callers
\* thread t has returned from lock() or had lockAsync() resolve more often
\* than its unlock() calls have decremented the count
holds(t) == held[t] > 0

\* a lockAsync() of thread t is running or suspended
asyncPending(t) == task[t] # "none" \/ (op[t] = "lockAsync" /\ pc[t] # "idle")

\* the depth a thread will have once its pending lockAsync() resolves
depthOf(t) == held[t] + (IF asyncPending(t) THEN 1 ELSE 0)

\* the callers stop nesting at MaxDepth
canAcquire(t) == depthOf(t) < MaxDepth

\* the callers stop calling unlock() in the middle of the counter's range,
\* which only a counter written from outside the mutex gets near
canRelease(t) ==
    \/ i32[countIndex(t)] <= MaxDepth * (MaxThreadId + 1)
    \/ i32[countIndex(t)] >= MAX_RECURSION_COUNT - MaxDepth

\* the locals of a call are gone when the call ends or goes round its loop
noLocals(t) ==
    /\ lockv' = [lockv EXCEPT ![t] = 0]
    /\ countv' = [countv EXCEPT ![t] = 0]

\* a call returns (its promise resolves) with the thread holding h times
returns(t, h) ==
    /\ pc' = [pc EXCEPT ![t] = "idle"]
    /\ ret' = [ret EXCEPT ![t] = "ok"]
    /\ held' = [held EXCEPT ![t] = h]
    /\ delay' = [delay EXCEPT ![t] = IF task[t] = "none" THEN 0 ELSE delay[t]]
    /\ noLocals(t)

\* a call throws (its promise rejects)
throws(t, code) ==
    /\ pc' = [pc EXCEPT ![t] = "idle"]
    /\ ret' = [ret EXCEPT ![t] = code]
    /\ held' = held
    /\ delay' = [delay EXCEPT ![t] = IF task[t] = "none" THEN 0 ELSE delay[t]]
    /\ noLocals(t)

\* `await WorkerMutex.sleep(delay)`: the task is suspended on a timer and the
\* thread goes back to its event loop
sleeps(t) ==
    /\ pc' = [pc EXCEPT ![t] = "idle"]
    /\ task' = [task EXCEPT ![t] = "sleeping"]
    /\ noLocals(t)

\* ---------------------------------------------------------------- lock()
\* a test that forgets the latch
warnsOnMainAlways(t) == t = MAIN_THREAD_ID

\* threadId === 0 && !WorkerMutex.mainThreadWarningShown
warns(t) == t = MAIN_THREAD_ID /\ ~mainThreadWarningShown

\* the first lock() on the main thread emits the warning and sets the latch
StartLock(t) ==
    /\ pc[t] = "idle"
    /\ ~asyncPending(t)
    /\ canAcquire(t)
    /\ pc' = [pc EXCEPT ![t] = "loadLock"]
    /\ op' = [op EXCEPT ![t] = "lock"]
    /\ ret' = [ret EXCEPT ![t] = "none"]
    /\ IF warns(t)
         THEN /\ mainThreadWarningShown' = TRUE
              /\ warnings' = warnings + 1
         ELSE UNCHANGED <<mainThreadWarningShown, warnings>>
    /\ UNCHANGED <<under, index, winner>>
    /\ UNCHANGED <<i32, hasWaitAsync, lockv, countv, task, delay, keepAlive,
                   waiters, held>>

\* lock() called by other code of thread t while a lockAsync() of the thread
\* is suspended at an await
StartLockPending(t) ==
    /\ pc[t] = "idle"
    /\ task[t] # "none"
    /\ canAcquire(t)
    /\ pc' = [pc EXCEPT ![t] = "loadLock"]
    /\ op' = [op EXCEPT ![t] = "lock"]
    /\ ret' = [ret EXCEPT ![t] = "none"]
    /\ IF warns(t)
         THEN /\ mainThreadWarningShown' = TRUE
              /\ warnings' = warnings + 1
         ELSE UNCHANGED <<mainThreadWarningShown, warnings>>
    /\ UNCHANGED <<under, index, winner>>
    /\ UNCHANGED <<i32, hasWaitAsync, lockv, countv, task, delay, keepAlive,
                   waiters, held>>

\* const lock = Atomics.load(a, fi)
LoadLock(t) ==
    /\ pc[t] = "loadLock"
    /\ lockv' = [lockv EXCEPT ![t] = i32[lockIndex(t)]]
    /\ pc' = [pc EXCEPT ![t] = "loadOwner"]
    /\ UNCHANGED <<under, index, winner, client>>
    /\ UNCHANGED <<i32, hasWaitAsync, mainThreadWarningShown, warnings, op, ret,
                   countv, task, delay, keepAlive, waiters, held>>

\* const owner = Atomics.load(a, oi), and the branch taken on (lock, owner):
\* the re-entrant increment, the CAS on a free flag, or the wait of the call
LoadOwner(t) ==
    /\ pc[t] = "loadOwner"
    /\ IF lockv[t] = 1 /\ i32[ownerIndex(t)] = selfId(t)
         THEN /\ pc' = [pc EXCEPT ![t] = "incLoad"]
              /\ noLocals(t) /\ task' = task
         ELSE IF lockv[t] = 0
           THEN /\ pc' = [pc EXCEPT ![t] = "casFlag"]
                /\ noLocals(t) /\ task' = task
           ELSE IF op[t] = "lock"
             THEN /\ pc' = [pc EXCEPT ![t] = "wait"]
                  /\ UNCHANGED <<lockv, countv, task>>
             ELSE IF hasWaitAsync
               THEN /\ pc' = [pc EXCEPT ![t] = "waitAsync"]
                    /\ UNCHANGED <<lockv, countv, task>>
               ELSE sleeps(t)
    /\ UNCHANGED <<under, index, winner, client>>
    /\ UNCHANGED <<i32, hasWaitAsync, mainThreadWarningShown, warnings, op, ret,
                   delay, keepAlive, waiters, held>>

\* a guard that takes a count of 0 for a count that can be decremented
underflowBelowZero(count) == count < 0

\* if (count <= 0) throw MUTEX_RECURSION_COUNT_UNDERFLOW
underflow(count) == count <= 0

\* a guard that lets the count go past its maximum
overflowNever(count) == FALSE

\* a guard that is late by one
overflowAbove(count) == count > MAX_RECURSION_COUNT

\* if (count >= MAX_RECURSION_COUNT) throw MUTEX_RECURSION_COUNT_OVERFLOW
overflow(count) == count >= MAX_RECURSION_COUNT

\* an increment that is written before the overflow guard is checked
IncLoadGuardedLate(t) ==
    /\ pc[t] = "incLoad"
    /\ IF underflow(i32[countIndex(t)])
         THEN throws(t, "MUTEX_RECURSION_COUNT_UNDERFLOW") /\ i32' = i32
         ELSE IF overflow(i32[countIndex(t)])
           THEN /\ throws(t, "MUTEX_RECURSION_COUNT_OVERFLOW")
                /\ i32' = [i32 EXCEPT
                              ![countIndex(t)] = int32Inc(i32[countIndex(t)])]
           ELSE /\ countv' = [countv EXCEPT ![t] = i32[countIndex(t)]]
                /\ pc' = [pc EXCEPT ![t] = "incCas"]
                /\ UNCHANGED <<i32, ret, held, delay, lockv>>
    /\ UNCHANGED <<under, index, winner, client>>
    /\ UNCHANGED <<hasWaitAsync, mainThreadWarningShown, warnings, op,
                   task, keepAlive, waiters>>

\* incrementRecursionCount: const count = Atomics.load(a, ci) and its guards
IncLoad(t) ==
    /\ pc[t] = "incLoad"
    /\ IF underflow(i32[countIndex(t)])
         THEN throws(t, "MUTEX_RECURSION_COUNT_UNDERFLOW")
         ELSE IF overflow(i32[countIndex(t)])
           THEN throws(t, "MUTEX_RECURSION_COUNT_OVERFLOW")
           ELSE /\ countv' = [countv EXCEPT ![t] = i32[countIndex(t)]]
                /\ pc' = [pc EXCEPT ![t] = "incCas"]
                /\ UNCHANGED <<ret, held, delay, lockv>>
    /\ UNCHANGED <<under, index, winner, client>>
    /\ UNCHANGED <<i32, hasWaitAsync, mainThreadWarningShown, warnings, op,
                   task, keepAlive, waiters>>

\* incrementRecursionCount: Atomics.compareExchange(a, ci, count, count + 1)
\* returns on success and reloads the count otherwise
IncCas(t) ==
    /\ pc[t] = "incCas"
    /\ IF i32[countIndex(t)] = countv[t]
         THEN /\ i32' = [i32 EXCEPT ![countIndex(t)] = int32Inc(countv[t])]
              /\ returns(t, held[t] + 1)
         ELSE /\ pc' = [pc EXCEPT ![t] = "incLoad"]
              /\ noLocals(t)
              /\ UNCHANGED <<i32, ret, held, delay>>
    /\ UNCHANGED <<under, index, winner, client>>
    /\ UNCHANGED <<hasWaitAsync, mainThreadWarningShown, warnings, op, task,
                   keepAlive, waiters>>

\* an acquisition that stores the flag without comparing it
CasFlagBlind(t) ==
    /\ pc[t] = "casFlag"
    /\ i32' = [i32 EXCEPT ![lockIndex(t)] = 1]
    /\ winner' = [winner EXCEPT ![index[t]] = {t}]
    /\ pc' = [pc EXCEPT ![t] = "storeOwner"]
    /\ UNCHANGED <<task, lockv, countv>>
    /\ UNCHANGED <<under, index, client>>
    /\ UNCHANGED <<hasWaitAsync, mainThreadWarningShown, warnings, op, ret,
                   delay, keepAlive, waiters, held>>

\* Atomics.compareExchange(a, fi, 0, 1); a lost race retries: at once in
\* lock(), after a sleep in lockAsync()
CasFlag(t) ==
    /\ pc[t] = "casFlag"
    /\ IF i32[lockIndex(t)] = 0
         THEN /\ i32' = [i32 EXCEPT ![lockIndex(t)] = 1]
              /\ winner' = [winner EXCEPT ![index[t]] = {t}]
              /\ pc' = [pc EXCEPT ![t] = "storeOwner"]
              /\ UNCHANGED <<task, lockv, countv>>
         ELSE /\ UNCHANGED <<i32, winner>>
              /\ IF op[t] = "lock"
                   THEN /\ pc' = [pc EXCEPT ![t] = "loadLock"]
                        /\ UNCHANGED <<task, lockv, countv>>
                   ELSE sleeps(t)
    /\ UNCHANGED <<under, index, client>>
    /\ UNCHANGED <<hasWaitAsync, mainThreadWarningShown, warnings, op, ret,
                   delay, keepAlive, waiters, held>>

\* an acquisition that stores the count in the place of the owner
StoreCountForOwner(t) ==
    /\ pc[t] = "storeOwner"
    /\ i32' = [i32 EXCEPT ![countIndex(t)] = 1]
    /\ pc' = [pc EXCEPT ![t] = "storeCount"]
    /\ UNCHANGED <<under, index, winner, client>>
    /\ UNCHANGED <<hasWaitAsync, mainThreadWarningShown, warnings, op, ret,
                   lockv, countv, task, delay, keepAlive, waiters, held>>

\* Atomics.store(a, oi, me)
StoreOwner(t) ==
    /\ pc[t] = "storeOwner"
    /\ i32' = [i32 EXCEPT ![ownerIndex(t)] = selfId(t)]
    /\ pc' = [pc EXCEPT ![t] = "storeCount"]
    /\ UNCHANGED <<under, index, winner, client>>
    /\ UNCHANGED <<hasWaitAsync, mainThreadWarningShown, warnings, op, ret,
                   lockv, countv, task, delay, keepAlive, waiters, held>>

\* Atomics.store(a, ci, 1); return
StoreCount(t) ==
    /\ pc[t] = "storeCount"
    /\ i32' = [i32 EXCEPT ![countIndex(t)] = 1]
    /\ returns(t, held[t] + 1)
    /\ UNCHANGED <<under, index, winner, client>>
    /\ UNCHANGED <<hasWaitAsync, mainThreadWarningShown, warnings, op, task,
                   keepAlive, waiters>>

\* Atomics.wait(a, fi, lock): parks the thread if the flag still equals lock,
\* returns 'not-equal' at once otherwise; either way the loop goes round
Wait(t) ==
    /\ pc[t] = "wait"
    /\ IF i32[lockIndex(t)] = lockv[t]
         THEN /\ pc' = [pc EXCEPT ![t] = "parked"]
              /\ waiters' = Append(waiters, [thread |-> t, kind |-> "sync",
                                                cell |-> lockIndex(t)])
         ELSE /\ pc' = [pc EXCEPT ![t] = "loadLock"]
              /\ waiters' = waiters
    /\ noLocals(t)
    /\ UNCHANGED <<under, index, winner, client>>
    /\ UNCHANGED <<i32, hasWaitAsync, mainThreadWarningShown, warnings, op, ret,
                   task, delay, keepAlive, held>>

\* ----------------------------------------------------------- lockAsync()
\* the call runs on the caller's thread up to its first await; let delay = 0
StartLockAsync(t) ==
    /\ pc[t] = "idle"
    /\ ~asyncPending(t)
    /\ canAcquire(t)
    /\ pc' = [pc EXCEPT ![t] = "loadLock"]
    /\ op' = [op EXCEPT ![t] = "lockAsync"]
    /\ ret' = [ret EXCEPT ![t] = "none"]
    /\ delay' = [delay EXCEPT ![t] = 0]
    /\ under' = [under EXCEPT ![t] = {u \in Threads \ {t} : holds(u)}]
    /\ UNCHANGED <<index, winner>>
    /\ UNCHANGED <<i32, hasWaitAsync, mainThreadWarningShown, warnings, lockv,
                   countv, task, keepAlive, waiters, held>>

\* a delay that grows without a cap
nextDelayUncapped(d) == d + 1

\* delay after `if (delay < 8) { delay += 1; }`
nextDelay(d) == IF d < MAX_DELAY THEN d + 1 ELSE d

\* a wait that blocks the thread as Atomics.wait does
WaitAsyncBlocking(t) ==
    /\ pc[t] = "waitAsync"
    /\ IF i32[lockIndex(t)] = lockv[t]
         THEN /\ pc' = [pc EXCEPT ![t] = "parked"]
              /\ waiters' = Append(waiters, [thread |-> t, kind |-> "sync",
                                                cell |-> lockIndex(t)])
         ELSE /\ pc' = [pc EXCEPT ![t] = "loadLock"]
              /\ waiters' = waiters
    /\ noLocals(t)
    /\ UNCHANGED <<under, index, winner, client>>
    /\ UNCHANGED <<i32, hasWaitAsync, mainThreadWarningShown, warnings, op, ret,
                   task, delay, keepAlive, held>>

\* anyAtomics.waitAsync(a, fi, lock): a promise, with the task queued on the
\* flag cell and awaited under a keep-alive timer, if the flag still equals
\* lock; the string 'not-equal' otherwise, and then the task sleeps
WaitAsync(t) ==
    /\ pc[t] = "waitAsync"
    /\ pc' = [pc EXCEPT ![t] = "idle"]
    /\ IF i32[lockIndex(t)] = lockv[t]
         THEN /\ waiters' = Append(waiters, [thread |-> t, kind |-> "async",
                                                cell |-> lockIndex(t)])
              /\ task' = [task EXCEPT ![t] = "waiting"]
              /\ keepAlive' = [keepAlive EXCEPT ![t] = TRUE]
         ELSE /\ task' = [task EXCEPT ![t] = "sleeping"]
              /\ UNCHANGED <<waiters, keepAlive>>
    /\ noLocals(t)
    /\ UNCHANGED <<under, index, winner, client>>
    /\ UNCHANGED <<i32, hasWaitAsync, mainThreadWarningShown, warnings, op, ret,
                   delay, held>>

\* the timer of sleep(delay) fires while the thread is in its event loop: the
\* task goes on after the await, raises delay and retries
ResumeSleep(t) ==
    /\ pc[t] = "idle"
    /\ task[t] = "sleeping"
    /\ task' = [task EXCEPT ![t] = "none"]
    /\ delay' = [delay EXCEPT ![t] = nextDelay(delay[t])]
    /\ pc' = [pc EXCEPT ![t] = "loadLock"]
    /\ op' = [op EXCEPT ![t] = "lockAsync"]
    /\ UNCHANGED <<under, index, winner, client>>
    /\ UNCHANGED <<i32, hasWaitAsync, mainThreadWarningShown, warnings, ret,
                   lockv, countv, keepAlive, waiters, held>>

\* a resumption that leaves the keep-alive timer running
ResumeWaitKeepingTimer(t) ==
    /\ pc[t] = "idle"
    /\ task[t] = "notified"
    /\ task' = [task EXCEPT ![t] = "none"]
    /\ delay' = [delay EXCEPT ![t] = 0]
    /\ pc' = [pc EXCEPT ![t] = "loadLock"]
    /\ op' = [op EXCEPT ![t] = "lockAsync"]
    /\ UNCHANGED <<under, index, winner, client>>
    /\ UNCHANGED <<i32, hasWaitAsync, mainThreadWarningShown, warnings, ret,
                   lockv, countv, keepAlive, waiters, held>>

\* the promise of waitAsync has been resolved by a notify and the thread is in
\* its event loop: awaitWaitAsync clears the keep-alive timer, delay = 0, retry
ResumeWait(t) ==
    /\ pc[t] = "idle"
    /\ task[t] = "notified"
    /\ task' = [task EXCEPT ![t] = "none"]
    /\ keepAlive' = [keepAlive EXCEPT ![t] = FALSE]
    /\ delay' = [delay EXCEPT ![t] = 0]
    /\ pc' = [pc EXCEPT ![t] = "loadLock"]
    /\ op' = [op EXCEPT ![t] = "lockAsync"]
    /\ UNCHANGED <<under, index, winner, client>>
    /\ UNCHANGED <<i32, hasWaitAsync, mainThreadWarningShown, warnings, ret,
                   lockv, countv, waiters, held>>

\* --------------------------------------------------------------- unlock()
StartUnlock(t) ==
    /\ pc[t] = "idle"
    /\ ~asyncPending(t)
    /\ canRelease(t)
    /\ pc' = [pc EXCEPT ![t] = "uLoadLock"]
    /\ op' = [op EXCEPT ![t] = "unlock"]
    /\ ret' = [ret EXCEPT ![t] = "none"]
    /\ UNCHANGED <<under, index, winner>>
    /\ UNCHANGED <<i32, hasWaitAsync, mainThreadWarningShown, warnings, lockv,
                   countv, task, delay, keepAlive, waiters, held>>

\* const lock = Atomics.load(a, fi)
ULoadLock(t) ==
    /\ pc[t] = "uLoadLock"
    /\ lockv' = [lockv EXCEPT ![t] = i32[lockIndex(t)]]
    /\ pc' = [pc EXCEPT ![t] = "uLoadOwner"]
    /\ UNCHANGED <<under, index, winner, client>>
    /\ UNCHANGED <<i32, hasWaitAsync, mainThreadWarningShown, warnings, op, ret,
                   countv, task, delay, keepAlive, waiters, held>>

\* const owner = Atomics.load(a, oi), and the ownership check
ULoadOwner(t) ==
    /\ pc[t] = "uLoadOwner"
    /\ IF lockv[t] # 1 \/ i32[ownerIndex(t)] # selfId(t)
         THEN throws(t, "MUTEX_IS_NOT_OWNED_BY_CURRENT_THREAD")
         ELSE /\ pc' = [pc EXCEPT ![t] = "uLoadCount"]
              /\ noLocals(t)
              /\ UNCHANGED <<ret, held, delay>>
    /\ UNCHANGED <<under, index, winner, client>>
    /\ UNCHANGED <<i32, hasWaitAsync, mainThreadWarningShown, warnings, op,
                   task, keepAlive, waiters>>

\* const count = Atomics.load(a, ci), and the underflow guard
ULoadCount(t) ==
    /\ pc[t] = "uLoadCount"
    /\ IF underflow(i32[countIndex(t)])
         THEN throws(t, "MUTEX_RECURSION_COUNT_UNDERFLOW")
         ELSE /\ countv' = [countv EXCEPT ![t] = i32[countIndex(t)]]
              /\ pc' = [pc EXCEPT ![t] = "uCas"]
              /\ UNCHANGED <<ret, held, delay, lockv>>
    /\ UNCHANGED <<under, index, winner, client>>
    /\ UNCHANGED <<i32, hasWaitAsync, mainThreadWarningShown, warnings, op,
                   task, keepAlive, waiters>>

\* the hold count of a thread after one of its unlock() calls took effect
released(h) == IF h > 0 THEN h - 1 ELSE 0

\* a test that takes a count of 0 for a hold that is left
heldAtZero(nextCount) == nextCount >= 0

\* if (nextCount > 0) return: the thread still holds the slot
stillHeld(nextCount) == nextCount > 0

\* Atomics.compareExchange(a, ci, count, nextCount): a lost race reloads; a
\* decrement to a positive count returns; a decrement to 0 goes on to release
UCas(t) ==
    /\ pc[t] = "uCas"
    /\ IF i32[countIndex(t)] # countv[t]
         THEN /\ pc' = [pc EXCEPT ![t] = "uLoadCount"]
              /\ noLocals(t)
              /\ UNCHANGED <<i32, ret, held, delay, under>>
         ELSE /\ i32' = [i32 EXCEPT ![countIndex(t)] = int32Dec(countv[t])]
              /\ under' = [u \in Threads |->
                             IF released(held[t]) = 0 THEN under[u] \ {t}
                                                      ELSE under[u]]
              /\ IF stillHeld(int32Dec(countv[t]))
                   THEN returns(t, released(held[t]))
                   ELSE /\ pc' = [pc EXCEPT ![t] = "uStoreCount"]
                        /\ held' = [held EXCEPT ![t] = released(held[t])]
                        /\ noLocals(t)
                        /\ UNCHANGED <<ret, delay>>
    /\ UNCHANGED <<index, winner, client>>
    /\ UNCHANGED <<hasWaitAsync, mainThreadWarningShown, warnings, op, task,
                   keepAlive, waiters>>

\* Atomics.store(a, ci, 0)
UStoreCount(t) ==
    /\ pc[t] = "uStoreCount"
    /\ i32' = [i32 EXCEPT ![countIndex(t)] = 0]
    /\ pc' = [pc EXCEPT ![t] = "uStoreOwner"]
    /\ UNCHANGED <<under, index, winner, client>>
    /\ UNCHANGED <<hasWaitAsync, mainThreadWarningShown, warnings, op, ret,
                   lockv, countv, task, delay, keepAlive, waiters, held>>

\* Atomics.store(a, oi, 0)
UStoreOwner(t) ==
    /\ pc[t] = "uStoreOwner"
    /\ i32' = [i32 EXCEPT ![ownerIndex(t)] = 0]
    /\ pc' = [pc EXCEPT ![t] = "uStoreFlag"]
    /\ UNCHANGED <<under, index, winner, client>>
    /\ UNCHANGED <<hasWaitAsync, mainThreadWarningShown, warnings, op, ret,
                   lockv, countv, task, delay, keepAlive, waiters, held>>

\* a release that notifies in the place of its store of the flag
UNotifyFirst(t) ==
    /\ pc[t] = "uStoreFlag"
    /\ pc' = [pc EXCEPT ![t] = "uNotify"]
    /\ IF \E i \in 1..Len(waiters) : waiters[i].cell = lockIndex(t)
         THEN LET i == CHOOSE i \in 1..Len(waiters) :
                           waiters[i].cell = lockIndex(t)
              IN  /\ waiters' = SubSeq(waiters, 1, i - 1)
                                    \o SubSeq(waiters, i + 1, Len(waiters))
                  /\ task' = [task EXCEPT ![waiters[i].thread] = "notified"]
         ELSE UNCHANGED <<waiters, task>>
    /\ UNCHANGED <<under, index, winner, client>>
    /\ UNCHANGED <<i32, hasWaitAsync, mainThreadWarningShown, warnings, op, ret,
                   lockv, countv, delay, keepAlive, held>>

\* Atomics.store(a, fi, 0)
UStoreFlag(t) ==
    /\ pc[t] = "uStoreFlag"
    /\ i32' = [i32 EXCEPT ![lockIndex(t)] = 0]
    /\ winner' = [winner EXCEPT ![index[t]] = {}]
    /\ pc' = [pc EXCEPT ![t] = "uNotify"]
    /\ UNCHANGED <<under, index, client>>
    /\ UNCHANGED <<hasWaitAsync, mainThreadWarningShown, warnings, op, ret,
                   lockv, countv, task, delay, keepAlive, waiters, held>>

\* the positions in the waiter list of the waiters on cell c
waitersOn(c) == {i \in 1..Len(waiters) : waiters[i].cell = c}

\* the longest-waiting waiter on cell c
firstWaiter(c) == CHOOSE i \in waitersOn(c) : \A j \in waitersOn(c) : i <= j

\* the list q without its i-th element
without(q, i) == SubSeq(q, 1, i - 1) \o SubSeq(q, i + 1, Len(q))

\* Atomics.notify(a, fi, 1) wakes the longest-waiting waiter on the flag
\* cell, if there is one: a parked thread leaves Atomics.wait and retries, a
\* waitAsync promise is resolved; then unlock() returns
UNotify(t) ==
    /\ pc[t] = "uNotify"
    /\ IF waitersOn(lockIndex(t)) = {}
         THEN /\ pc' = [pc EXCEPT ![t] = "idle"]
              /\ UNCHANGED <<waiters, task>>
         ELSE LET i == firstWaiter(lockIndex(t))
                  w == waiters[i]
              IN /\ waiters' = without(waiters, i)
                 /\ IF w.kind = "sync"
                      THEN /\ pc' = [pc EXCEPT ![t] = "idle",
                                               ![w.thread] = "loadLock"]
                           /\ task' = task
                      ELSE /\ pc' = [pc EXCEPT ![t] = "idle"]
                           /\ task' = [task EXCEPT ![w.thread] = "notified"]
    /\ ret' = [ret EXCEPT ![t] = "ok"]
    /\ UNCHANGED <<under, index, winner, client>>
    /\ UNCHANGED <<i32, hasWaitAsync, mainThreadWarningShown, warnings, op,
                   lockv, countv, delay, keepAlive, held>>

\* --------------------------------------------------------- specifications
\* one Atomics operation of a running call
Step(t) ==
    \/ LoadLock(t) \/ LoadOwner(t) \/ IncLoad(t) \/ IncCas(t) \/ CasFlag(t)
    \/ StoreOwner(t) \/ StoreCount(t) \/ Wait(t) \/ WaitAsync(t)
    \/ ResumeSleep(t) \/ ResumeWait(t)
    \/ ULoadLock(t) \/ ULoadOwner(t) \/ ULoadCount(t) \/ UCas(t)
    \/ UStoreCount(t) \/ UStoreOwner(t) \/ UStoreFlag(t) \/ UNotify(t)

\* a thread calls lock(), lockAsync() or unlock() whenever none of its calls
\* is pending, and the calls interleave at their Atomics operations
CallLock(t) == StartLock(t) /\ UNCHANGED client
CallLockAsync(t) == StartLockAsync(t) /\ UNCHANGED client
CallUnlock(t) == StartUnlock(t) /\ UNCHANGED client

Next ==
    \E t \in Callers :
        \/ CallLock(t) \/ CallLockAsync(t) \/ CallUnlock(t)
        \/ Step(t)

Spec == Init /\ [][Next]_vars

\* ---- finitely many acquisitions, each released by its thread
\* a thread starts an acquisition MaxCalls times at most, and calls unlock()
\* only while it holds the slot
FewLock(t) ==
    /\ iter[t] < MaxCalls
    /\ StartLock(t)
    /\ iter' = [iter EXCEPT ![t] = iter[t] + 1]
    /\ UNCHANGED <<useAsync, counter, wpc, tmp, work, block, made>>

FewLockAsync(t) ==
    /\ iter[t] < MaxCalls
    /\ StartLockAsync(t)
    /\ iter' = [iter EXCEPT ![t] = iter[t] + 1]
    /\ UNCHANGED <<useAsync, counter, wpc, tmp, work, block, made>>

FewUnlock(t) == holds(t) /\ CallUnlock(t)

NextFew ==
    \E t \in Callers :
        \/ FewLock(t) \/ FewLockAsync(t) \/ FewUnlock(t)
        \/ Step(t)

\* every thread keeps running and every timer fires
SpecFew ==
    /\ Init
    /\ [][NextFew]_vars
    /\ \A t \in Callers : WF_vars(Step(t))


\* ---- one thread alone
\* the steps a call takes when no other thread touches the slot
SoloStep(t) ==
    \/ LoadLock(t) \/ LoadOwner(t) \/ IncLoad(t) \/ IncCas(t) \/ CasFlag(t)
    \/ StoreOwner(t) \/ StoreCount(t)
    \/ ULoadLock(t) \/ ULoadOwner(t) \/ ULoadCount(t) \/ UCas(t)
    \/ UStoreCount(t) \/ UStoreOwner(t) \/ UStoreFlag(t) \/ UNotify(t)

\* whichever thread calls first stays the only one that calls
NextSolo ==
    \E t \in Threads :
        /\ \A u \in Threads \ {t} : op[u] = "none"
        /\ \/ CallLock(t) \/ CallLockAsync(t) \/ CallUnlock(t)
           \/ SoloStep(t)

SpecSolo == Init /\ [][NextSolo]_vars

\* ---- a counter written from outside the mutex
\* `mutex.lock(); cells[2] = 0` and `mutex.lock(); cells[2] = 2147483647`:
\* the thread that holds the slot overwrites the recursion count
Corrupt(t) ==
    /\ pc[t] = "idle"
    /\ ~asyncPending(t)
    /\ holds(t)
    /\ i32[lockIndex(t)] = 1
    /\ i32[ownerIndex(t)] = selfId(t)
    /\ \E v \in {0, MAX_RECURSION_COUNT} :
           /\ i32[countIndex(t)] # v
           /\ i32' = [i32 EXCEPT ![countIndex(t)] = v]
    /\ UNCHANGED <<hasWaitAsync, mainThreadWarningShown, warnings, pc, op, ret,
                   lockv, countv, task, delay, keepAlive, waiters, held, under,
                   index, winner>>
    /\ UNCHANGED client

NextCorrupt ==
    \E t \in Callers :
        \/ CallLock(t) \/ CallLockAsync(t) \/ CallUnlock(t)
        \/ Step(t)
        \/ Corrupt(t)

SpecCorrupt == Init /\ [][NextCorrupt]_vars

\* ---- other work on the thread of a suspended lockAsync()
\* the event loop of thread t runs another task while the lockAsync() of
\* the thread is suspended at an await
OtherWork(t) ==
    /\ pc[t] = "idle"
    /\ task[t] # "none"
    /\ work' = [work EXCEPT ![t] = ~work[t]]
    /\ UNCHANGED <<useAsync, counter, wpc, iter, tmp, block, made>>
    /\ UNCHANGED mutex

NextTasks ==
    \E t \in Callers :
        \/ CallLock(t) \/ CallLockAsync(t) \/ CallUnlock(t)
        \/ Step(t)
        \/ OtherWork(t)

SpecTasks == Init /\ [][NextTasks]_vars

\* ---- lock() and lockAsync() mixed on one thread
\* the worker threads call as in Spec, and a worker may call lock() while
\* its lockAsync() is suspended
CallLockPending(t) == StartLockPending(t) /\ UNCHANGED client

Workers == Threads \ {MAIN_THREAD_ID}

NextMixed ==
    \E t \in Workers :
        \/ CallLock(t) \/ CallLockAsync(t) \/ CallUnlock(t)
        \/ CallLockPending(t)
        \/ Step(t)

SpecMixed == Init /\ [][NextMixed]_vars

\* the worker threads call as in Spec
NextApart ==
    \E t \in Workers :
        \/ CallLock(t) \/ CallLockAsync(t) \/ CallUnlock(t)
        \/ Step(t)

SpecApart == Init /\ [][NextApart]_vars

\* ---- several mutexes in one buffer
\* WorkerMutex.createSharedBuffer(MaxIndex + 1), and each calling thread
\* with a handle on one of the slots
InitSlots ==
    /\ i32 = createSharedBuffer(MaxIndex + 1)
    /\ index \in [Threads -> 0..MaxIndex]
    /\ \A t \in Threads \ Callers : index[t] = 0
    /\ InitCalls
    /\ useAsync = FALSE
    /\ counter = 0
    /\ wpc = [t \in Threads |-> "none"]
    /\ iter = [t \in Threads |-> 0]
    /\ tmp = [t \in Threads |-> 0]
    /\ work = [t \in Threads |-> FALSE]
    /\ block = NoBlock
    /\ made = NoHandle

SpecSlots == InitSlots /\ [][Next]_vars

\* ---- allocating blocks and constructing handles ----

\* the largest count whose buffer is shorter than LIMB bytes
largestSmallCount == floorDiv(Num(0, LIMB - 1), BYTES_PER_MUTEX)

\* the counts passed to createSharedBuffer
CountInputs ==
    {int(n) : n \in (0 - 1)..(MaxCount + 1)}
        \cup {fraction(int(1)), undefined, NaN, largestSmallCount,
              plus(largestSmallCount, 1), MAX_MUTEX_COUNT,
              plus(MAX_MUTEX_COUNT, 1), MAX_SAFE_INTEGER,
              plus(MAX_SAFE_INTEGER, 1)}

\* the indices passed to the constructor
IndexInputs ==
    {int(n) : n \in (0 - 1)..(MaxCount + 1)}
        \cup {fraction(int(1)), undefined, NaN, MAX_SAFE_INTEGER,
              plus(MAX_SAFE_INTEGER, 1)}

\* the buffer a successful createSharedBuffer returned, as a handle
blockHandle(b) ==
    [shared |-> TRUE, byteLength |-> b.byteLength.lo, cells |-> b.cells]

\* the handles passed to the constructor: no handle, new ArrayBuffer(8),
\* new SharedArrayBuffer(0), (10) and (16), and the block last created
HandleInputs ==
    {Handle(FALSE, 0), Handle(FALSE, 8), Handle(TRUE, 0), Handle(TRUE, 10),
     Handle(TRUE, 16)}
        \cup (IF block.code = "ok" /\ block.listed
                THEN {blockHandle(block)} ELSE {})

\* what new SharedArrayBuffer(byteLength) can do with the request b: the
\* buffer, or for a length of LIMB bytes or more, which the engine may be
\* unable to allocate, a RangeError
allocations(b) ==
    IF b.code = "ok" /\ b.byteLength.hi > 0
      THEN {b, [b EXCEPT !.code = "RangeError", !.byteLength = int(0)]}
      ELSE {b}

\* WorkerMutex.createSharedBuffer(count)
CreateBlock(count) ==
    /\ block' \in allocations(createBlock(count))
    /\ made' = NoHandle
    /\ UNCHANGED <<useAsync, counter, wpc, iter, tmp, work>>
    /\ UNCHANGED mutex

\* new WorkerMutex({ handle, index })
Construct(handle, idx) ==
    /\ made' = constructor(handle, idx)
    /\ UNCHANGED <<useAsync, counter, wpc, iter, tmp, work, block>>
    /\ UNCHANGED mutex

NextHandles ==
    \/ \E count \in CountInputs : CreateBlock(count)
    \/ \E handle \in HandleInputs, idx \in IndexInputs : Construct(handle, idx)

SpecHandles == Init /\ [][NextHandles]_vars

\* ---- the counter workers
\* the call of the worker has returned or thrown
callEnded(t) == pc[t] = "idle" /\ ~asyncPending(t)

\* the property under which a worker passes workerData.mutexBuffer to the
\* constructor: the test's workers name it sharedBuffer, the worker of the
\* README names it handle
helperOptions == "sharedBuffer"
readmeOptions == "handle"
WorkerOptions == {helperOptions, readmeOptions}

\* workerData.mutexBuffer, the buffer of the slots, as a handle
mutexBuffer ==
    [shared |-> TRUE, byteLength |-> Cardinality(DOMAIN i32) * BYTES_PER_ELEMENT,
     cells |-> i32]

\* const handle = options.handle: the buffer if the options name it handle,
\* undefined if they do not
handleOf(key) == IF key = "handle" THEN mutexBuffer ELSE Handle(FALSE, 0)

InitWorkers ==
    /\ InitMutex
    /\ useAsync \in BOOLEAN
    /\ counter = 0
    /\ wpc = [t \in Threads |-> IF t \in CounterWorkers THEN "new" ELSE "none"]
    /\ iter = [t \in Threads |-> 0]
    /\ tmp = [t \in Threads |-> 0]
    /\ work = [t \in Threads |-> FALSE]
    /\ block = NoBlock
    /\ made = NoHandle

\* const mutex = new WorkerMutex({ ...: workerData.mutexBuffer }), which
\* throws unless the constructor finds a shared buffer in options.handle
WorkerNew(t) ==
    /\ wpc[t] = "new"
    /\ \E key \in WorkerOptions :
           wpc' = [wpc EXCEPT ![t] =
                       IF constructor(handleOf(key), undefined).code = "ok"
                         THEN "lock" ELSE "threw"]
    /\ UNCHANGED <<useAsync, counter, iter, tmp, work, block, made>>
    /\ UNCHANGED mutex

\* mutex.lock(), or await mutex.lockAsync() if workerData.useAsync
WorkerLock(t) ==
    /\ wpc[t] = "lock"
    /\ IF useAsync THEN StartLockAsync(t) ELSE StartLock(t)
    /\ wpc' = [wpc EXCEPT ![t] = "locking"]
    /\ UNCHANGED <<useAsync, counter, iter, tmp, work, block, made>>

\* counter[0] += 1, the read
WorkerRead(t) ==
    /\ wpc[t] = "locking"
    /\ callEnded(t)
    /\ ret[t] = "ok"
    /\ tmp' = [tmp EXCEPT ![t] = counter]
    /\ wpc' = [wpc EXCEPT ![t] = "write"]
    /\ UNCHANGED <<useAsync, counter, iter, work, block, made>>
    /\ UNCHANGED mutex

\* counter[0] += 1, the write
WorkerWrite(t) ==
    /\ wpc[t] = "write"
    /\ counter' = tmp[t] + 1
    /\ iter' = [iter EXCEPT ![t] = iter[t] + 1]
    /\ tmp' = [tmp EXCEPT ![t] = 0]
    /\ wpc' = [wpc EXCEPT ![t] = "unlock"]
    /\ UNCHANGED <<useAsync, work, block, made>>
    /\ UNCHANGED mutex

\* finally { mutex.unlock(); }
WorkerUnlock(t) ==
    /\ wpc[t] = "unlock"
    /\ StartUnlock(t)
    /\ wpc' = [wpc EXCEPT ![t] = "unlocking"]
    /\ UNCHANGED <<useAsync, counter, iter, tmp, work, block, made>>

\* index += 1 and round the loop, or parentPort.postMessage({ ok: true })
WorkerLoop(t) ==
    /\ wpc[t] = "unlocking"
    /\ callEnded(t)
    /\ ret[t] = "ok"
    /\ wpc' = [wpc EXCEPT ![t] = IF iter[t] < Iterations THEN "lock" ELSE "done"]
    /\ UNCHANGED <<useAsync, counter, iter, tmp, work, block, made>>
    /\ UNCHANGED mutex

\* the constructor or a call threw: .catch posts { ok: false } and the
\* worker is over
WorkerFail(t) ==
    /\ \/ wpc[t] = "threw"
       \/ /\ wpc[t] \in {"locking", "unlocking"}
          /\ callEnded(t)
          /\ ret[t] \notin {"none", "ok"}
    /\ wpc' = [wpc EXCEPT ![t] = "failed"]
    /\ UNCHANGED <<useAsync, counter, iter, tmp, work, block, made>>
    /\ UNCHANGED mutex

Worker(t) ==
    \/ WorkerNew(t) \/ WorkerLock(t) \/ WorkerRead(t) \/ WorkerWrite(t) \/ WorkerUnlock(t)
    \/ WorkerLoop(t) \/ WorkerFail(t)

\* the steps of the calls of a counter worker, which never calls lock() or
\* lockAsync() while it holds the slot: all but those of the nested branch
WorkerStep(t) ==
    \/ LoadLock(t) \/ LoadOwner(t) \/ CasFlag(t)
    \/ StoreOwner(t) \/ StoreCount(t) \/ Wait(t) \/ WaitAsync(t)
    \/ ResumeSleep(t) \/ ResumeWait(t)
    \/ ULoadLock(t) \/ ULoadOwner(t) \/ ULoadCount(t) \/ UCas(t)
    \/ UStoreCount(t) \/ UStoreOwner(t) \/ UStoreFlag(t) \/ UNotify(t)

NextWorkers == \E t \in CounterWorkers : Worker(t) \/ WorkerStep(t)

\* every thread keeps running and every timer fires
SpecWorkers ==
    /\ InitWorkers
    /\ [][NextWorkers]_vars
    /\ \A t \in CounterWorkers : WF_vars(Worker(t) \/ WorkerStep(t))

\* ---- a worker holds the slot while the main thread calls lockAsync()
\* the thread of the hold-lock worker
HoldWorker == 1

\* the main thread has its mutex on the buffer and waits for the first
\* message of the worker, which is about to construct its own
InitRoles ==
    /\ InitMutex
    /\ useAsync = FALSE
    /\ counter = 0
    /\ wpc = [t \in Threads |-> IF t = MAIN_THREAD_ID THEN "await"
                                ELSE IF t = HoldWorker THEN "new" ELSE "none"]
    /\ iter = [t \in Threads |-> 0]
    /\ tmp = [t \in Threads |-> 0]
    /\ work = [t \in Threads |-> FALSE]
    /\ block = NoBlock
    /\ made = NoHandle

\* const mutex = new WorkerMutex({ ...: workerData.mutexBuffer, index: 0 })
HoldNew(t) ==
    /\ wpc[t] = "new"
    /\ \E key \in WorkerOptions :
           wpc' = [wpc EXCEPT ![t] =
                       IF constructor(handleOf(key), int(0)).code = "ok"
                         THEN "lock" ELSE "threw"]
    /\ UNCHANGED <<useAsync, counter, iter, tmp, work, block, made>>
    /\ UNCHANGED mutex

\* mutex.lock()
HoldLock(t) ==
    /\ wpc[t] = "lock"
    /\ StartLock(t)
    /\ wpc' = [wpc EXCEPT ![t] = "locking"]
    /\ UNCHANGED <<useAsync, counter, iter, tmp, work, block, made>>

\* parentPort.postMessage({ state: 'locked' }) and setTimeout(..., holdMs)
HoldPost(t) ==
    /\ wpc[t] = "locking"
    /\ callEnded(t)
    /\ ret[t] = "ok"
    /\ wpc' = [wpc EXCEPT ![t] = "hold"]
    /\ UNCHANGED <<useAsync, counter, iter, tmp, work, block, made>>
    /\ UNCHANGED mutex

\* the timer fires: mutex.unlock()
HoldUnlock(t) ==
    /\ wpc[t] = "hold"
    /\ StartUnlock(t)
    /\ wpc' = [wpc EXCEPT ![t] = "unlocking"]
    /\ UNCHANGED <<useAsync, counter, iter, tmp, work, block, made>>

\* parentPort.postMessage({ state: 'released' })
HoldDone(t) ==
    /\ wpc[t] = "unlocking"
    /\ callEnded(t)
    /\ ret[t] = "ok"
    /\ wpc' = [wpc EXCEPT ![t] = "done"]
    /\ UNCHANGED <<useAsync, counter, iter, tmp, work, block, made>>
    /\ UNCHANGED mutex

\* catch: parentPort.postMessage({ state: 'error' }), as the first message
\* if the constructor or lock() threw, after 'locked' if unlock() threw
HoldFail(t) ==
    /\ \/ /\ wpc[t] = "threw"
          /\ wpc' = [wpc EXCEPT ![t] = "failed"]
       \/ /\ wpc[t] = "locking" /\ callEnded(t) /\ ret[t] \notin {"none", "ok"}
          /\ wpc' = [wpc EXCEPT ![t] = "failed"]
       \/ /\ wpc[t] = "unlocking" /\ callEnded(t) /\ ret[t] \notin {"none", "ok"}
          /\ wpc' = [wpc EXCEPT ![t] = "error"]
    /\ UNCHANGED <<useAsync, counter, iter, tmp, work, block, made>>
    /\ UNCHANGED mutex

\* the script has run and no timer is left: the worker thread exits, with
\* process.exitCode 1 after a catch and 0 otherwise
HoldExit(t) ==
    /\ wpc[t] \in {"done", "failed", "error"}
    /\ wpc' = [wpc EXCEPT ![t] = CASE wpc[t] = "done" -> "exited"
                                   [] wpc[t] = "failed" -> "exitedFailed"
                                   [] OTHER -> "exitedError"]
    /\ UNCHANGED <<useAsync, counter, iter, tmp, work, block, made>>
    /\ UNCHANGED mutex

Hold(t) ==
    \/ HoldNew(t) \/ HoldLock(t) \/ HoldPost(t) \/ HoldUnlock(t)
    \/ HoldDone(t) \/ HoldFail(t) \/ HoldExit(t)

\* the first message of the worker was { state: 'locked' }
locked ==
    wpc[HoldWorker] \in {"hold", "unlocking", "done", "error", "exited", "exitedError"}

\* the first message of the worker was { state: 'error' }
errored == wpc[HoldWorker] \in {"failed", "exitedFailed"}

\* the 'exit' event of the worker: exitPromise is settled, resolved if the
\* exit code is 0 and rejected otherwise
exited == wpc[HoldWorker] \in {"exited", "exitedFailed", "exitedError"}

\* const state = await waitForMessage(worker); expect(state)...;
\* const startedAt = Date.now(); await mutex.lockAsync()
MainLockAsync(t) ==
    /\ wpc[t] = "await"
    /\ locked
    /\ StartLockAsync(t)
    /\ wpc' = [wpc EXCEPT ![t] = "locking"]
    /\ UNCHANGED <<useAsync, counter, iter, tmp, work, block, made>>

\* lockAsync() resolved and the measured elapsed = Date.now() - startedAt is
\* at least 25: expect(elapsed).at.least(25) passes; mutex.unlock().
\* The elapsed time is that of the rest of the worker's timer and of the
\* sleeps and waits of lockAsync(): whenever the call resolved, it may have
\* been 25 ms or more, or less (MainFail).
MainUnlock(t) ==
    /\ wpc[t] = "locking"
    /\ callEnded(t)
    /\ ret[t] = "ok"
    /\ StartUnlock(t)
    /\ wpc' = [wpc EXCEPT ![t] = "unlocking"]
    /\ UNCHANGED <<useAsync, counter, iter, tmp, work, block, made>>

\* unlock() returned: the try block is over; finally { await exitPromise }
MainFinally(t) ==
    /\ wpc[t] = "unlocking"
    /\ callEnded(t)
    /\ ret[t] = "ok"
    /\ wpc' = [wpc EXCEPT ![t] = "exiting"]
    /\ UNCHANGED <<useAsync, counter, iter, tmp, work, block, made>>
    /\ UNCHANGED mutex

\* the try block throws, and finally { await exitPromise } is entered with
\* the error: the first message is not { state: 'locked' }, or lockAsync()
\* rejects, or lockAsync() resolved and elapsed is less than 25, so that
\* expect(elapsed).at.least(25) throws and mutex.unlock() is never called,
\* or unlock() throws
MainFail(t) ==
    /\ \/ wpc[t] = "await" /\ errored
       \/ /\ wpc[t] \in {"locking", "unlocking"}
          /\ callEnded(t)
          /\ ret[t] \notin {"none", "ok"}
       \/ /\ wpc[t] = "locking"
          /\ callEnded(t)
          /\ ret[t] = "ok"
    /\ wpc' = [wpc EXCEPT ![t] = "throwing"]
    /\ UNCHANGED <<useAsync, counter, iter, tmp, work, block, made>>
    /\ UNCHANGED mutex

\* exitPromise is settled and the test is over: it passes if the try block
\* completed and the worker exited with code 0, and fails otherwise
MainDone(t) ==
    /\ wpc[t] \in {"exiting", "throwing"}
    /\ exited
    /\ wpc' = [wpc EXCEPT ![t] =
                   IF wpc[t] = "exiting" /\ wpc[HoldWorker] = "exited"
                     THEN "done" ELSE "failed"]
    /\ UNCHANGED <<useAsync, counter, iter, tmp, work, block, made>>
    /\ UNCHANGED mutex

Main(t) ==
    \/ MainLockAsync(t) \/ MainUnlock(t) \/ MainFinally(t)
    \/ MainFail(t) \/ MainDone(t)

\* the steps of the calls of the test: the worker's lock() finds the slot
\* free and nobody nests, so no call parks in Atomics.wait or gets to the
\* compare-exchange of the count
RolesStep(t) ==
    \/ LoadLock(t) \/ LoadOwner(t) \/ IncLoad(t) \/ CasFlag(t)
    \/ StoreOwner(t) \/ StoreCount(t) \/ WaitAsync(t)
    \/ ResumeSleep(t) \/ ResumeWait(t)
    \/ ULoadLock(t) \/ ULoadOwner(t) \/ ULoadCount(t) \/ UCas(t)
    \/ UStoreCount(t) \/ UStoreOwner(t) \/ UStoreFlag(t) \/ UNotify(t)

NextRoles ==
    \/ Hold(HoldWorker) \/ RolesStep(HoldWorker)
    \/ Main(MAIN_THREAD_ID) \/ RolesStep(MAIN_THREAD_ID)

\* every thread keeps running and every timer fires
SpecRoles ==
    /\ InitRoles
    /\ [][NextRoles]_vars
    /\ WF_vars(Hold(HoldWorker) \/ RolesStep(HoldWorker))
    /\ WF_vars(Main(MAIN_THREAD_ID) \/ RolesStep(MAIN_THREAD_ID))

\* ---------------------------------------------------------------- claims
\* the call of thread t has ended, and it was `which`
ended(t, which) == op[t] = which /\ pc[t] = "idle" /\ ~asyncPending(t)

\* C1: mutual exclusion: no two threads hold the slot at the same time, that
\* is, have returned from lock()/lockAsync() without fully releasing since
C1_MutualExclusion ==
    \A t1 \in Threads, t2 \in Threads : t1 # t2 => ~(holds(t1) /\ holds(t2))

RECURSIVE sumOver(_, _)
sumOver(f, S) ==
    IF S = {} THEN 0
    ELSE LET x == CHOOSE y \in S : TRUE IN f[x] + sumOver(f, S \ {x})

C3_Reentrancy ==
    \A t \in Threads :
        (op[t] # "none" /\ pc[t] = "idle") =>
            /\ recursionCount = held[t]
            /\ IF held[t] > 0 THEN flag = 1 /\ owner = selfId(t)
                              ELSE flag = 0 /\ owner = 0
            /\ op[t] \in {"lock", "lockAsync"} => ret[t] = "ok"
            /\ ~asyncPending(t)

\* an unlock() of a nested hold has returned with the slot still held
C3_Witness ==
    \E t \in Threads :
        /\ ended(t, "unlock") /\ ret[t] = "ok"
        /\ held[t] = MaxDepth - 1
        /\ recursionCount = MaxDepth - 1 /\ flag = 1 /\ owner = selfId(t)

\* C4: ownership enforcement: only a thread that holds the slot gets past
\* the ownership check of unlock(); every other unlock() fails with
\* MUTEX_IS_NOT_OWNED_BY_CURRENT_THREAD and decrements nothing
C4_OwnershipEnforced ==
    \A t \in Threads : pc[t] \in {"uLoadCount", "uCas"} => holds(t)

\* the step settles the lockAsync() of thread t: its promise resolves or
\* rejects
settles(t) ==
    /\ op[t] = "lockAsync" /\ pc[t] # "idle"
    /\ pc'[t] = "idle" /\ task'[t] = "none"

\* C5: a lockAsync() stays pending for as long as another thread holds the
\* slot: its promise settles, resolved or rejected, only in a state where no
\* other thread has returned from an acquisition of the slot that it has not
\* fully released yet, and it resolves only after each of the threads that
\* held the slot when it was called has fully released it
C5_ResolvesAfterRelease ==
    [][\A t \in Threads :
           settles(t) => /\ \A u \in Threads \ {t} :
                                index[u] = index[t] => ~holds(u)
                         /\ ret'[t] = "ok" => under'[t] = {}]_vars

\* every thread that acquires the slot fully releases it
everyHoldReleased == \A u \in Threads : holds(u) ~> ~holds(u)

\* C6: no lost wake-up: if every hold is released and the threads start
\* finitely many acquisitions, a thread blocked in lock() eventually returns
\* holding the slot
C6_BlockedLockReturns ==
    everyHoldReleased => \A t \in Threads : (pc[t] = "parked") ~> holds(t)

\* C7: if every hold is released, a pending lockAsync() eventually resolves
\* with the caller holding the slot
C7_LockAsyncResolves ==
    everyHoldReleased =>
        \A t \in Threads : (op[t] = "lockAsync" /\ asyncPending(t)) ~> holds(t)

\* C8 as stated: recursionCount > 0 <=> flag = 1 in every state
C8_CountIffFlag == (recursionCount > 0) <=> (flag = 1)

\* a thread is between the CAS on the flag and the store of the count
midAcquire(t) == pc[t] \in {"storeOwner", "storeCount"}

\* a thread is between the CAS of the count to 0 and the store of the flag
midRelease(t) == pc[t] \in {"uStoreCount", "uStoreOwner", "uStoreFlag"}

\* C8: recursionCount > 0 implies flag = 1 in every state, and flag = 1
\* implies recursionCount > 0 except while a thread is in the middle of an
\* acquisition or of a release
C8_CountImpliesFlag ==
    /\ recursionCount > 0 => flag = 1
    /\ (flag = 1 /\ recursionCount <= 0)
           => \E t \in Threads : midAcquire(t) \/ midRelease(t)

\* the flag is 1 and the count still 0 in the middle of an acquisition
C8_Witness ==
    /\ flag = 1 /\ recursionCount = 0
    /\ \E t \in Threads : pc[t] = "storeCount"

\* C9: the recursion count stays within 0 .. 2^31 - 1: no call increments
\* it at the maximum or decrements it at 0
C9_CountInRange ==
    /\ recursionCount \in 0..MAX_RECURSION_COUNT
    /\ \A t \in Threads : pc[t] = "incCas" => countv[t] < MAX_RECURSION_COUNT
    /\ \A t \in Threads : pc[t] = "uCas" => countv[t] > 0

\* a re-entrant lock() at the maximum has thrown and left the count there
C9_Witness ==
    \E t \in Threads :
        /\ ended(t, "lock") /\ ret[t] = "MUTEX_RECURSION_COUNT_OVERFLOW"
        /\ flag = 1 /\ owner = selfId(t)
        /\ recursionCount = MAX_RECURSION_COUNT

\* C10: underflow detection: an unlock() that passed the ownership check and
\* finds recursionCount <= 0 throws MUTEX_RECURSION_COUNT_UNDERFLOW and writes
\* no cell, and no step takes the count below 0
C10_UnderflowDetected ==
    [][/\ \A t \in Threads :
              (pc[t] = "uLoadCount" /\ pc'[t] # "uLoadCount"
                                    /\ recursionCount <= 0)
                  => /\ pc'[t] = "idle"
                     /\ ret'[t] = "MUTEX_RECURSION_COUNT_UNDERFLOW"
                     /\ i32' = i32
       /\ recursionCount >= 0 => recursionCount' >= 0]_vars

\* the owner's unlock() has thrown the underflow error on a count of 0
C10_Witness ==
    \E t \in Threads :
        /\ ended(t, "unlock") /\ ret[t] = "MUTEX_RECURSION_COUNT_UNDERFLOW"
        /\ holds(t) /\ flag = 1 /\ owner = selfId(t)
        /\ recursionCount = 0

\* the re-entrant call `which` of thread t finds the count at its maximum,
\* throws MUTEX_RECURSION_COUNT_OVERFLOW and leaves every cell as it is
overflowDetected(t, which) ==
    (op[t] = which /\ pc[t] = "incLoad" /\ pc'[t] # "incLoad"
                   /\ i32[countIndex(t)] = MAX_RECURSION_COUNT)
        => /\ pc'[t] = "idle"
           /\ ret'[t] = "MUTEX_RECURSION_COUNT_OVERFLOW"
           /\ task'[t] = "none"
           /\ held'[t] = held[t]
           /\ i32' = i32

\* C11: overflow detection: a re-entrant lock() that finds recursionCount at
\* 2^31 - 1 throws MUTEX_RECURSION_COUNT_OVERFLOW and does not increment
C11_OverflowDetected == [][\A t \in Threads : overflowDetected(t, "lock")]_vars

\* the owner's lock() has thrown the overflow error, its one hold is left
C11_Witness ==
    \E t \in Threads :
        /\ ended(t, "lock") /\ ret[t] = "MUTEX_RECURSION_COUNT_OVERFLOW"
        /\ held[t] = 1 /\ owner = selfId(t) /\ flag = 1
        /\ recursionCount = MAX_RECURSION_COUNT
        /\ \A u \in Threads \ {t} : op[u] = "none"

\* C12: a re-entrant lockAsync() that finds recursionCount at 2^31 - 1 does
\* not resolve: it rejects with MUTEX_RECURSION_COUNT_OVERFLOW and does not
\* increment, with Atomics.waitAsync and without it
C12_OverflowRejects ==
    [][\A t \in Threads : overflowDetected(t, "lockAsync")]_vars

\* the owner's lockAsync() has rejected with the overflow error on the
\* polling path
C12_Witness ==
    \E t \in Threads :
        /\ ~hasWaitAsync
        /\ ended(t, "lockAsync") /\ ret[t] = "MUTEX_RECURSION_COUNT_OVERFLOW"
        /\ holds(t) /\ owner = selfId(t) /\ flag = 1
        /\ recursionCount = MAX_RECURSION_COUNT

\* the same on the path that has Atomics.waitAsync
C12_WitnessNative ==
    \E t \in Threads :
        /\ hasWaitAsync
        /\ ended(t, "lockAsync") /\ ret[t] = "MUTEX_RECURSION_COUNT_OVERFLOW"
        /\ holds(t) /\ owner = selfId(t) /\ flag = 1
        /\ recursionCount = MAX_RECURSION_COUNT

\* C13: recursive lockAsync(): a lockAsync() of the thread that has the slot
\* to itself ends without having waited, resolved, with flag = 1, owner =
\* self and recursionCount one more than the holds the thread had before,
\* whether those were taken by lock() or by lockAsync()
C13_RecursiveLockAsync ==
    [][\A t \in Threads :
           (op[t] = "lockAsync" /\ pc[t] # "idle" /\ pc'[t] = "idle")
               => /\ ret'[t] = "ok"
                  /\ task'[t] = "none"
                  /\ held'[t] = held[t] + 1
                  /\ i32'[countIndex(t)] = held[t] + 1
                  /\ i32'[lockIndex(t)] = 1
                  /\ i32'[ownerIndex(t)] = selfId(t)]_vars

\* a second acquisition, by lockAsync(), has resolved with the count at 2
C13_Witness ==
    \E t \in Threads :
        /\ ended(t, "lockAsync") /\ ret[t] = "ok"
        /\ held[t] = 2 /\ recursionCount = 2 /\ flag = 1

\* an unlock() that leaves a positive count changes no other cell and wakes
\* no waiter
C14_PartialUnlockKeepsSlot ==
    [][\A t \in Threads :
           (pc[t] = "uCas" /\ pc'[t] = "idle")
               => /\ i32'[lockIndex(t)] = 1 /\ i32[lockIndex(t)] = 1
                  /\ i32'[ownerIndex(t)] = i32[ownerIndex(t)]
                  /\ i32'[countIndex(t)] > 0
                  /\ waiters' = waiters /\ task' = task
                  /\ \A u \in Threads \ {t} : pc'[u] = pc[u]]_vars

\* thread t owns the slot: it holds, and the cells say so
owns(t) == holds(t) /\ i32[lockIndex(t)] = 1 /\ i32[ownerIndex(t)] = selfId(t)

\* C14: unlock() fully releases only at depth 0: after an unlock() that left
\* a positive count, and while its caller owns the slot and calls nothing
\* else, no other thread acquires the slot
C14_HeldUntilZero ==
    [][\A t \in Threads, u \in Threads :
           (/\ t # u
            /\ ended(t, "unlock") /\ ret[t] = "ok"
            /\ owns(t) /\ i32[countIndex(t)] > 0
            /\ ~holds(u))
               => ~holds(u)']_vars

\* the cells of slot i
slotCells(i) == {i * STRIDE + o : o \in {LOCK_OFFSET, OWNER_OFFSET, COUNT_OFFSET}}

\* thread t takes the step: its position changes, and it was not woken
steps(t) == pc[t] # "parked" /\ pc'[t] # pc[t]

\* thread t is waiting for its slot
waiting(t) == pc[t] \in {"wait", "parked", "waitAsync"} \/ task[t] # "none"

\* C15: slot independence: a step of a call on the handle of index i changes
\* no cell outside slot i, and a thread waits for its slot only if another
\* thread has called on the same slot
C15_SlotIndependence ==
    /\ [][\A c \in DOMAIN i32 :
              i32'[c] # i32[c]
                  => \E t \in Threads : steps(t) /\ c \in slotCells(index[t])]_vars
    /\ [](\A t \in Threads :
              waiting(t) => \E u \in Threads \ {t} :
                                index[u] = index[t] /\ op[u] # "none")

\* two threads hold the two slots of one buffer at the same time
C15_Witness ==
    \E t \in Threads, u \in Threads :
        /\ index[t] = 0 /\ index[u] = 1
        /\ holds(t) /\ holds(u)
        /\ pc[t] = "idle" /\ pc[u] = "idle"
        /\ i32[0 * STRIDE + LOCK_OFFSET] = 1 /\ i32[1 * STRIDE + LOCK_OFFSET] = 1
        /\ i32[0 * STRIDE + OWNER_OFFSET] = selfId(t)
        /\ i32[1 * STRIDE + OWNER_OFFSET] = selfId(u)

\* C16: lockAsync() never blocks its host thread: no thread is parked in a
\* lockAsync(), and while a lockAsync() is suspended, other work of its
\* thread can run
C16_HostThreadRuns ==
    \A t \in Threads :
        /\ op[t] = "lockAsync" => pc[t] # "parked"
        /\ task[t] # "none" => ENABLED OtherWork(t)

\* other work has run on a thread whose lockAsync() is still waiting for
\* the slot another thread holds
C16_Witness ==
    \E t \in Threads, u \in Threads :
        /\ t # u /\ owns(u)
        /\ op[t] = "lockAsync" /\ task[t] = "waiting"
        /\ work[t]

\* the count of a createSharedBuffer call: 1 when none was passed
countOf(b) == IF b.arg.kind = "undefined" THEN int(1) ELSE b.arg

\* v is an integer in 1 .. Number.MAX_SAFE_INTEGER
positiveSafeInteger(v) ==
    /\ v.kind = "number" /\ ~v.frac /\ ~v.neg /\ ~isZero(v)
    /\ magLeq(v, MAX_SAFE_INTEGER)

\* the byte size of v slots is beyond Number.MAX_SAFE_INTEGER
tooManyBytes(v) == greater(times(v, BYTES_PER_ELEMENT * STRIDE), MAX_SAFE_INTEGER)

\* a call that produced no block
noBlock(b) ==
    b.code # "ok" /\ ~b.listed /\ isZero(b.byteLength) /\ DOMAIN b.cells = {}

\* C17: createSharedBuffer(count) fails with
\* COUNT_MUST_BE_A_POSITIVE_SAFE_INTEGER when count is not a positive safe
\* integer, and with COUNT_EXCEEDS_MAX_SUPPORTED_VALUE when count is a positive
\* safe integer above floor(MAX_SAFE_INTEGER / bytes per slot); in both cases
\* no block is produced
C17_CountValidated ==
    block.code # "none" =>
        /\ ~positiveSafeInteger(countOf(block))
               => /\ block.code = "COUNT_MUST_BE_A_POSITIVE_SAFE_INTEGER"
                  /\ noBlock(block)
        /\ positiveSafeInteger(countOf(block)) /\ tooManyBytes(countOf(block))
               => /\ block.code = "COUNT_EXCEEDS_MAX_SUPPORTED_VALUE"
                  /\ noBlock(block)

C17_Witness ==
    /\ block.arg = plus(MAX_MUTEX_COUNT, 1)
    /\ block.code = "COUNT_EXCEEDS_MAX_SUPPORTED_VALUE"

\* C17, the first rule alone: a count of 0 is rejected
C17_WitnessZero ==
    /\ block.arg = int(0)
    /\ block.code = "COUNT_MUST_BE_A_POSITIVE_SAFE_INTEGER"

\* a valid count: a positive safe integer of at most MAX_MUTEX_COUNT
validCount(v) == positiveSafeInteger(v) /\ ~tooManyBytes(v)

\* the cells of the block are those of count slots, all zero
zeroFilled(b) ==
    /\ DOMAIN b.cells = 0..(countOf(b).lo * 3 - 1)
    /\ \A i \in 0..(countOf(b).lo - 1) : \A c \in slotCells(i) : b.cells[c] = 0

\* C18 as stated: for every valid count createSharedBuffer returns a block,
\* of count * 3 * 4 bytes
C18_EveryValidCountAllocates ==
    block.code # "none" /\ validCount(countOf(block))
        => /\ block.code = "ok"
           /\ block.byteLength = times(times(countOf(block), STRIDE), 4)

\* C18: for every valid count createSharedBuffer raises none of its own
\* errors: either new SharedArrayBuffer throws a RangeError, which it can only
\* for LIMB bytes or more, and no block is produced, or the call returns a
\* block of count * 3 cells, that is count * 3 * 4 bytes, all zero: every slot
\* starts unlocked, with no owner and depth 0, and a handle constructed on it
\* finds its three cells at zero, as lock()'s compareExchange(0, 1) needs
C18_ZeroFilledBlock ==
    /\ block.code # "none" /\ validCount(countOf(block))
           => /\ block.code \in {"ok", "RangeError"}
              /\ block.code = "RangeError"
                     => /\ noBlock(block)
                        /\ atLeast(times(countOf(block), BYTES_PER_MUTEX), LIMB)
              /\ block.code = "ok"
                     => block.byteLength
                            = times(times(countOf(block), STRIDE), 4)
    /\ block.code = "ok" /\ block.listed => zeroFilled(block)
    /\ made.code = "ok" /\ block.code = "ok" /\ block.listed
           /\ made.handle = blockHandle(block)
           => /\ made.i32[made.base + LOCK_OFFSET] = 0
              /\ made.i32[made.base + OWNER_OFFSET] = 0
              /\ made.i32[made.base + COUNT_OFFSET] = 0

C18_Witness ==
    /\ block.code = "ok" /\ block.arg = int(MaxCount)
    /\ made.code = "ok" /\ made.handle = blockHandle(block)
    /\ made.base = (MaxCount - 1) * STRIDE

\* C18, the failed allocation: the largest valid count gets a RangeError
C18_WitnessRangeError ==
    block.arg = MAX_MUTEX_COUNT /\ block.code = "RangeError"

\* the index of a constructor call: 0 when none was passed
indexOf(m) == IF m.arg.kind = "undefined" THEN int(0) ELSE m.arg

\* v is an integer in 0 .. Number.MAX_SAFE_INTEGER
unsignedSafeInteger(v) ==
    /\ v.kind = "number" /\ ~v.frac /\ (~v.neg \/ isZero(v))
    /\ magLeq(v, MAX_SAFE_INTEGER)

\* the number of Int32 cells of a handle's buffer
cellCount(h) == h.byteLength \div 4

\* the cells base .. base + 2 of a constructed handle
cellsOf(m) == {m.base + o : o \in {LOCK_OFFSET, OWNER_OFFSET, COUNT_OFFSET}}

\* a call that produced no handle
noHandle(m) == m.code # "ok" /\ m.base = 0 /\ DOMAIN m.i32 = {}

\* C19: on a shared, aligned block and with an unsigned safe integer index,
\* the constructor yields a handle exactly when index * 3 + 2 is below the
\* block's cell count and fails with MUTEX_INDEX_OUT_OF_RANGE otherwise; on a
\* block created for count slots it accepts the indices 0 .. count - 1 and
\* rejects every index >= count; the three cells of a handle are cells of the
\* block, those of its slot and of no other slot
C19_IndexInRange ==
    made.code # "none" /\ unsignedSafeInteger(indexOf(made))
        /\ made.handle.shared /\ made.handle.byteLength % 4 = 0
        => LET idx == indexOf(made)
               fits == idx.hi = 0 /\ idx.lo * 3 + 2 < cellCount(made.handle)
           IN  /\ made.code = IF fits THEN "ok" ELSE "MUTEX_INDEX_OUT_OF_RANGE"
               /\ block.code = "ok" /\ block.listed
                      /\ made.handle = blockHandle(block)
                      => fits = (idx.hi = 0 /\ idx.lo < countOf(block).lo)
               /\ made.code = "ok"
                      => /\ cellsOf(made) \subseteq DOMAIN made.i32
                         /\ cellsOf(made) = slotCells(idx.lo)
                         /\ \A j \in 0..(cellCount(made.handle) \div 3) :
                                j # idx.lo
                                    => cellsOf(made) \cap slotCells(j) = {}

C19_Witness ==
    /\ block.code = "ok" /\ block.arg = int(2)
    /\ made.handle = blockHandle(block)
    /\ made.arg = int(2)
    /\ made.code = "MUTEX_INDEX_OUT_OF_RANGE"

\* C19, the accepted side: the last slot of the block yields a handle
C19_WitnessLast ==
    /\ block.code = "ok" /\ block.arg = int(2)
    /\ made.handle = blockHandle(block)
    /\ made.arg = int(1)
    /\ made.code = "ok"

\* C20: the constructor rejects an invalid input with the code of the first
\* rule it violates and produces no handle: an index that is not a
\* non-negative safe integer fails with VALUE_MUST_BE_AN_UNSIGNED_INTEGER;
\* with a valid index, a handle that is not a SharedArrayBuffer fails with
\* HANDLE_MUST_BE_A_SHARED_ARRAY_BUFFER, and a shared one whose byte length is
\* no multiple of 4 fails with HANDLE_BYTE_LENGTH_IS_NOT_INT32_ALIGNED
C20_InvalidInputRejected ==
    made.code # "none" =>
        LET badIndex == ~unsignedSafeInteger(indexOf(made))
            notShared == ~made.handle.shared
            unaligned == made.handle.shared /\ made.handle.byteLength % 4 # 0
        IN  /\ badIndex => made.code = "VALUE_MUST_BE_AN_UNSIGNED_INTEGER"
            /\ ~badIndex /\ notShared
                   => made.code = "HANDLE_MUST_BE_A_SHARED_ARRAY_BUFFER"
            /\ ~badIndex /\ unaligned
                   => made.code = "HANDLE_BYTE_LENGTH_IS_NOT_INT32_ALIGNED"
            /\ made.code
                   \in {"VALUE_MUST_BE_AN_UNSIGNED_INTEGER",
                        "HANDLE_MUST_BE_A_SHARED_ARRAY_BUFFER",
                        "HANDLE_BYTE_LENGTH_IS_NOT_INT32_ALIGNED"}
                   => badIndex \/ notShared \/ unaligned
            /\ made.code # "ok" => noHandle(made)

C20_Witness ==
    /\ made.handle = Handle(TRUE, 10)
    /\ made.arg = int(0)
    /\ made.code = "HANDLE_BYTE_LENGTH_IS_NOT_INT32_ALIGNED"

\* the step is the entry of thread t into a call of lock()
startsLock(t) ==
    pc[t] = "idle" /\ task[t] = "none" /\ pc'[t] = "loadLock" /\ op'[t] = "lock"

\* C21: the main-thread warning is emitted once per process: by the first
\* lock() called on the main thread and by no later lock(), by no lock() of a
\* worker thread and by no other call; the latch goes from false to true with
\* that emission and is never reset
C21_WarnsOnce ==
    /\ [](warnings <= 1 /\ (mainThreadWarningShown <=> warnings = 1))
    /\ [][/\ mainThreadWarningShown => mainThreadWarningShown'
          /\ warnings' >= warnings
          /\ startsLock(MAIN_THREAD_ID) /\ ~mainThreadWarningShown
                 => warnings' = warnings + 1 /\ mainThreadWarningShown'
          /\ warnings' # warnings
                 => startsLock(MAIN_THREAD_ID) /\ ~mainThreadWarningShown]_vars

C21_Witness ==
    /\ warnings = 1 /\ mainThreadWarningShown
    /\ held[MAIN_THREAD_ID] = 1
    /\ op[MAIN_THREAD_ID] = "lock" /\ pc[MAIN_THREAD_ID] = "incLoad"
    /\ \E t \in Threads \ {MAIN_THREAD_ID} : op[t] = "lock"

\* thread u has won the compareExchange of the flag, or has had a lock() or
\* lockAsync() return, and has not released since
hasSlot(u) == midAcquire(u) \/ holds(u)

\* the step is thread t's compareExchange on the recursion count of its slot
\* and it succeeds
changesCount(t) ==
    /\ pc[t] \in {"incCas", "uCas"}
    /\ i32'[countIndex(t)] # i32[countIndex(t)]

\* C22: the recursion count of a slot is incremented or decremented only by
\* the thread that holds the slot: no thread's lock(), lockAsync() or unlock()
\* changes it while another thread has the slot
C22_OnlyHolderCounts ==
    [][\A t \in Threads, u \in Threads :
           t # u /\ index[t] = index[u] /\ changesCount(t) => ~hasSlot(u)]_vars

\* thread t is in a call of lock() or lockAsync()
acquiring(t) ==
    op[t] \in {"lock", "lockAsync"} /\ (pc[t] # "idle" \/ task[t] # "none")

\* C23: re-entrancy goes by the thread: a lock() or lockAsync() that a thread
\* calls while it holds the slot, from whichever of its code paths, takes the
\* re-entrant path only: it never waits, never sleeps and never tries the flag,
\* and it returns with the thread holding once more; an unlock() the thread
\* calls while it holds is never refused
C23_ThreadScopedReentry ==
    /\ [](\A t \in Threads :
              holds(t) /\ acquiring(t)
                  => /\ pc[t] \in {"loadLock", "loadOwner", "incLoad", "incCas"}
                     /\ task[t] = "none")
    /\ [][\A t \in Threads :
              /\ holds(t) /\ acquiring(t) /\ pc'[t] = "idle"
                     => /\ ret'[t] = "ok"
                        /\ held'[t] = held[t] + 1
                        /\ i32'[countIndex(t)] = i32[countIndex(t)] + 1
              /\ holds(t) /\ op[t] = "unlock" /\ pc[t] # "idle"
                          /\ pc'[t] = "idle"
                     => /\ ret'[t] = "ok"
                        /\ held'[t] = held[t] - 1]_vars

\* thread t takes the step it is at in its unlock()
unlockStep(t, at) == op[t] = "unlock" /\ pc[t] = at /\ pc'[t] # at

\* the step writes v to cell c and leaves every other cell alone
writesOnly(c, v) == i32' = [i32 EXCEPT ![c] = v]

\* C24: an unlock() that brings the count to 0 stores recursionCount = 0,
\* then owner = 0, then flag = 0, each as a step of its own and in that order,
\* and notifies after that; a waiter leaves the flag cell's queue only in the
\* notify step of an unlock(), which is reached by its store of flag = 0
\* alone, so no thread is notified before the flag could be read as 0
C24_ReleaseOrder ==
    [][/\ \A t \in Threads :
              /\ unlockStep(t, "uCas") /\ i32'[countIndex(t)] = 0
                     /\ i32[countIndex(t)] # 0
                     => pc'[t] = "uStoreCount" /\ waiters' = waiters
              /\ unlockStep(t, "uStoreCount")
                     => /\ writesOnly(countIndex(t), 0)
                        /\ pc'[t] = "uStoreOwner" /\ waiters' = waiters
              /\ unlockStep(t, "uStoreOwner")
                     => /\ writesOnly(ownerIndex(t), 0)
                        /\ pc'[t] = "uStoreFlag" /\ waiters' = waiters
              /\ unlockStep(t, "uStoreFlag")
                     => /\ writesOnly(lockIndex(t), 0)
                        /\ pc'[t] = "uNotify" /\ waiters' = waiters
                        /\ task' = task
              /\ unlockStep(t, "uNotify") => i32' = i32 /\ pc'[t] = "idle"
              /\ pc[t] # "uNotify" /\ pc'[t] = "uNotify"
                     => unlockStep(t, "uStoreFlag")
       /\ Len(waiters') < Len(waiters) \/ (\E u \in Threads :
                                                task[u] # "notified"
                                                    /\ task'[u] = "notified")
              => \E t \in Threads : unlockStep(t, "uNotify")]_vars

C24_Witness ==
    \E t \in Threads, u \in Threads :
        /\ t # u
        /\ ended(t, "unlock") /\ ret[t] = "ok" /\ ~holds(t)
        /\ task[u] = "notified"
        /\ flag = 0 /\ owner = 0 /\ recursionCount = 0

\* the step is the normal return of thread t's lock(), or the resolution of
\* its lockAsync()
acquires(t) ==
    /\ op[t] \in {"lock", "lockAsync"}
    /\ pc[t] # "idle" /\ pc'[t] = "idle"
    /\ ret'[t] = "ok" /\ task'[t] = "none"

\* C25: when lock() returns normally or lockAsync() resolves, the slot has
\* flag = 1, owner = the calling thread and recursionCount >= 1, and
\* recursionCount = 1 if the call won the compareExchange of the flag: the
\* call returns in the step that stores the count, after its store of the owner
C25_AcquirePostcondition ==
    [][\A t \in Threads :
           acquires(t)
               => /\ i32'[lockIndex(t)] = 1
                  /\ i32'[ownerIndex(t)] = selfId(t)
                  /\ i32'[countIndex(t)] >= 1
                  /\ pc[t] \in {"incCas", "storeCount"}
                  /\ pc[t] = "storeCount" => i32'[countIndex(t)] = 1]_vars

\* C26: contention is not an error: when the cells are written by the mutex
\* alone and every thread calls unlock() only after its own lock() or
\* lockAsync() has returned, as the worker and the main thread of the test
\* do, no call fails
C26_NoErrorUnderContention ==
    \A t \in Threads : ret[t] \in {"none", "ok"}

\* the promise of thread t's waitAsync is pending, or is settled with the
\* task that awaits it not yet resumed
awaitsWait(t) == task[t] \in {"waiting", "notified"}

\* C27: a lockAsync() call has a keep-alive timer exactly while it awaits the
\* promise of a waitAsync: the timer is set with the wait, is cleared in the
\* step that resumes the task once the promise is settled, before the retry,
\* and is never there while the task sleeps, runs, or after the call has
\* resolved or rejected
C27_KeepAliveDiscipline ==
    /\ [](\A t \in Threads :
              /\ keepAlive[t] <=> awaitsWait(t)
              /\ keepAlive[t] => hasWaitAsync /\ op[t] = "lockAsync"
              /\ pc[t] = "idle" /\ ~asyncPending(t) => ~keepAlive[t])
    /\ [][\A t \in Threads :
              /\ ~keepAlive[t] /\ keepAlive'[t]
                     => pc[t] = "waitAsync" /\ task'[t] = "waiting"
              /\ task[t] = "notified" /\ task'[t] # "notified"
                     => ~keepAlive'[t]]_vars

C27_Witness ==
    \E t \in Threads :
        /\ ended(t, "lockAsync") /\ ret[t] = "ok" /\ holds(t)
        /\ ~keepAlive[t]
        /\ \E u \in Threads : u # t /\ task[u] = "waiting" /\ keepAlive[u]

\* thread t is in a call of lockAsync() that polls
polling(t) ==
    ~hasWaitAsync /\ op[t] = "lockAsync" /\ (pc[t] # "idle" \/ task[t] # "none")

\* C28: without waitAsync, one lockAsync() call sleeps 0, 1, 2, ..., 8 time
\* units between its retries and 8 from then on: the call starts with
\* delay 0, each sleep lasts the delay as it stands, each resumption raises the
\* delay by exactly 1 below the cap of 8 and leaves it at 8, and no other step
\* of the call changes it
C28_LinearBackoff ==
    /\ [](\A t \in Threads : delay[t] \in 0..8)
    /\ [][\A t \in Threads :
              /\ ~hasWaitAsync /\ op'[t] = "lockAsync" /\ pc[t] = "idle"
                     /\ task[t] = "none" /\ pc'[t] = "loadLock"
                     => delay'[t] = 0
              /\ polling(t) /\ task[t] = "sleeping" /\ task'[t] # "sleeping"
                     => delay'[t] = IF delay[t] < 8 THEN delay[t] + 1 ELSE 8
              /\ polling(t) /\ task[t] # "sleeping" /\ polling(t)'
                     => delay'[t] = delay[t]]_vars

C28_Witness ==
    \E t \in Threads :
        /\ ~hasWaitAsync /\ op[t] = "lockAsync"
        /\ task[t] = "sleeping" /\ delay[t] = 8

\* the step is one of thread t's lockAsync() and writes a cell
asyncWrites(t) == op[t] = "lockAsync" /\ pc'[t] # pc[t] /\ i32' # i32

\* the writes of an acquisition: the compareExchange of a free flag, the
\* stores of owner and of recursionCount = 1 that follow it, or the
\* increment of the count on the re-entrant path
acquisitionWrite(t) ==
    \/ pc[t] = "casFlag" /\ i32[lockIndex(t)] = 0 /\ writesOnly(lockIndex(t), 1)
    \/ pc[t] = "storeOwner" /\ writesOnly(ownerIndex(t), selfId(t))
    \/ pc[t] = "storeCount" /\ writesOnly(countIndex(t), 1)
    \/ pc[t] = "incCas"
           /\ writesOnly(countIndex(t), i32[countIndex(t)] + 1)

\* the two variants of lockAsync() differ in how the task is suspended only:
\* in both, every write of the call is a write of an acquisition, and the
\* call is suspended on the flag cell's queue with waitAsync alone
C29_SameTransitions ==
    /\ [][\A t \in Threads : asyncWrites(t) => acquisitionWrite(t)]_vars
    /\ [](\A t \in Threads :
              /\ task[t] \in {"waiting", "notified"} => hasWaitAsync
              /\ pc[t] = "waitAsync" => hasWaitAsync)

\* C29: the waitAsync variant and the polling variant of lockAsync() keep
\* the same contract: with either, every write of the call is a write of an
\* acquisition, and the call resolves only with the caller holding the slot,
\* that is with flag = 1 and the caller's identity in the owner cell
C29_VariantsAgree ==
    [][\A t \in Threads :
           /\ asyncWrites(t) => acquisitionWrite(t)
           /\ op[t] = "lockAsync" /\ acquires(t)
                  => /\ i32'[lockIndex(t)] = 1
                     /\ i32'[ownerIndex(t)] = selfId(t)]_vars

\* a call of thread t has read the slot as locked by t itself: it is on the
\* re-entrant path of lock() or lockAsync(), or past the ownership check of
\* unlock() and before its count reaches 0
takenForOwner(t) == pc[t] \in {"incLoad", "incCas", "uLoadCount", "uCas"}

\* a thread is taken for the owner only of a slot that no other thread has
C30_NeverTakenForOwner ==
    \A t \in Threads, u \in Threads :
        t # u /\ index[t] = index[u] /\ takenForOwner(t) => ~hasSlot(u)

\* C30: the identity a calling thread compares with the owner cell is never
\* 0, the value of an owner cell that is not written: so a thread is never
\* taken for the owner of a slot that another thread is acquiring, holds or
\* is releasing
C30_IdentityNeverZero ==
    /\ \A t \in Threads : op[t] # "none" => selfId(t) # 0
    /\ C30_NeverTakenForOwner

\* the slots of the buffer
Slots == {i \in 0..MaxIndex : slotCells(i) \subseteq DOMAIN i32}

\* C31: in every state, between any two atomic operations, a slot with
\* recursionCount > 0 has flag = 1 and, in its owner cell, the identity of
\* the thread whose compareExchange set that flag: a positive count is never
\* seen on an unlocked slot or on the slot of another owner
C31_CountImpliesOwner ==
    \A i \in Slots :
        i32[i * STRIDE + COUNT_OFFSET] > 0
            => /\ i32[i * STRIDE + LOCK_OFFSET] = 1
               /\ \E u \in winner[i] :
                      i32[i * STRIDE + OWNER_OFFSET] = selfId(u)

C31_Witness ==
    \E i \in Slots, t \in Threads, u \in Threads :
        /\ t # u /\ index[t] = i /\ index[u] = i
        /\ i32[i * STRIDE + COUNT_OFFSET] = MaxDepth
        /\ winner[i] = {u}
        /\ pc[t] \in {"parked", "wait"} \/ task[t] = "waiting"

\* thread t is parked in lock() on a free slot and nothing is under way that
\* will wake it: no other thread is in a call or has a suspended lockAsync()
stuck(t) ==
    /\ pc[t] = "parked" /\ i32[lockIndex(t)] = 0
    /\ \A u \in Threads \ {t} : pc[u] = "idle" /\ task[u] = "none"

\* C32: no wake-up is lost when a thread mixes the two forms: a thread that
\* calls lock() while its lockAsync() is pending on a slot another thread
\* holds is not left parked once the holder has fully released and returned
C32_MixedFormsWake == \A t \in Threads : ~stuck(t)

\* the step ends a call of thread t with one of the two corruption errors
failsOnCount(t) ==
    /\ pc[t] # "idle" /\ pc'[t] = "idle"
    /\ ret'[t] \in {"MUTEX_RECURSION_COUNT_UNDERFLOW",
                    "MUTEX_RECURSION_COUNT_OVERFLOW"}

\* where a call is once it has written a cell and has more to do
pastWrite ==
    {"storeOwner", "storeCount", "uStoreCount", "uStoreOwner", "uStoreFlag",
     "uNotify"}

\* the step is one of thread t's call and writes a cell
writes(t) == pc[t] # "idle" /\ pc'[t] # pc[t] /\ i32' # i32

\* C33: a lock(), lockAsync() or unlock() that fails with
\* MUTEX_RECURSION_COUNT_UNDERFLOW or MUTEX_RECURSION_COUNT_OVERFLOW has
\* written no cell: it fails in the step that loads the count, which leaves
\* flag, owner and recursionCount as they are and the caller's holds too, and
\* a call that has written a cell goes on to its normal return
C33_FailureWritesNothing ==
    [][\A t \in Threads :
           /\ failsOnCount(t)
                  => /\ pc[t] \in {"incLoad", "uLoadCount"}
                     /\ i32' = i32
                     /\ held'[t] = held[t]
           /\ writes(t) \/ (pc[t] \in pastWrite /\ pc'[t] # pc[t])
                  => \/ pc'[t] \in pastWrite
                     \/ pc'[t] = "idle" /\ ret'[t] = "ok"]_vars

C33_Witness ==
    \E t \in Threads :
        /\ ended(t, "lock") /\ ret[t] = "MUTEX_RECURSION_COUNT_UNDERFLOW"
        /\ held[t] = 1 /\ flag = 1 /\ owner = selfId(t)
        /\ recursionCount = 0
        /\ winner[0] = {t}

====
